---- MODULE Spec2Model ----
(***************************************************************************)
(* Verification model of the COMTRADE waveform analyzer.                   *)
(*                                                                         *)
(* Part 1 (Spec, FairSpec): the Main Window's analysis lifecycle           *)
(*   (src/gui/main_window.py): file loading, start/stop of the background  *)
(*   AnalysisWorker thread, the worker's run() with its cancellation       *)
(*   checks, and the queued signals handled on the GUI thread.             *)
(* Part 2 (SpecMerge): FaultDetector._merge_overlapping_events applied to  *)
(*   arbitrary bounded lists of fault events.                              *)
(* Part 3 (SpecDetect): the event-producing detectors of FaultDetector     *)
(*   over a record's time axis, followed by the merge and sort.            *)
(* Part 4 (SpecPre): ComtradeReader record creation and                    *)
(*   DataProcessor.preprocess_record over a heap of sample arrays.         *)
(* Part 5 (SpecSettings, SpecPrefs): AppSettings (src/config/settings.py)  *)
(*   with its two stores, and the Preferences dialog working on it.        *)
(* Part 6 (SpecExport): the Export dialog and its ExportWorker.            *)
(* Part 7 (SpecClose): MainWindow.closeEvent.                              *)
(* Part 8 (SpecTree): the channel tree's debounced selection signal.       *)
(* Part 9 (SpecPlot): PlotCanvas waveforms and fault highlights.           *)
(* Part 10 (SpecTemp): the reader's temporary UTF-8 configuration copies.  *)
(* Part 11 (SpecDat): the reader's cascade of DAT parsing strategies.      *)
(* Part 12 (SpecNames, SpecSpikes): pure functions over channel names and  *)
(*   over digital samples.                                                 *)
(* Part 13 (SpecIndex): channel indices from the reader to the consumers.  *)
(* Part 14 (SpecToolbar): the toolbars' enabling of the analysis buttons.  *)
(***************************************************************************)
EXTENDS Integers, Sequences, FiniteSets, TLC

(***************************************************************************)
(* Bounds                                                                  *)
(***************************************************************************)
MaxWorkers == 2      \* AnalysisWorker objects created in one behaviour
MaxLoads == 2        \* load_comtrade_file calls in one behaviour
MaxAnalog == 1       \* analog channels of a loaded record
MaxEvents == 3       \* fault events handed to the merge post-pass
MaxDetected == 2     \* fault events raised by the detectors in one detect_faults
NumSamples == 11     \* samples of the record given to detect_faults
MaxTick == 2         \* a time axis starts at 0..MaxTick, in ticks of 0.01 s
MaxLength == 3       \* samples per channel of a record the reader creates
MaxDigital == 1      \* digital channels of a record the reader creates
MaxCalls == 4        \* calls of AppSettings operations in one behaviour
MaxExports == 2      \* exports started from one Export dialog
MaxCloseAttempts == 4 \* close requests on the main window
MaxDialogs == 1      \* times the Preferences dialog is shown
MaxTreeTime == 6     \* ticks of 50 ms the channel tree is observed
MaxChanges == 3      \* handlers changing check states in the channel tree
MaxAxes == 2         \* subplots on the canvas
MaxAttempts == 3     \* load_file calls on one reader
MaxWrites == 2       \* samples the caller overwrites in a returned record

Workers == 1..MaxWorkers

VARIABLES
    \* ---- MainWindow (src/gui/main_window.py:166-172, 313-322, 384-392)
    start_analysis_action,       \* QAction.isEnabled()
    start_analysis_tool_action,
    stop_analysis_action,
    stop_analysis_tool_action,
    current_record,              \* NoRecord or a loaded record
    current_analysis,            \* 0 (None) or id of the record analysed
    analysis_worker,             \* 0 (None) or the worker referenced
    nloads,                      \* number of files loaded so far
    \* ---- AnalysisWorker threads (src/gui/main_window.py:39-160)
    workers,                     \* worker id -> thread state
    nworkers,                    \* number of workers constructed so far
    eventQueue,                  \* queued cross-thread signals for the GUI thread
    finished_handled,            \* workers whose finished signal was handled
    \* ---- FaultDetector._merge_overlapping_events (fault_detector.py:621-647)
    input_events,                \* the list passed in, as the caller built it
    merged_events,               \* the list returned
    merge_pc,                    \* "idle", "build" (list being collected) or "done"
    \* ---- FaultDetector.detect_faults (fault_detector.py:66-104)
    time_axis,                   \* record.time_axis
    fault_events,                \* the local list fault_events
    returned_events,             \* the list returned
    detect_pc,                   \* "idle", the detector about to run, or "returned"
    \* ---- ComtradeReader / DataProcessor (comtrade_reader.py, data_processor.py)
    heap,                        \* the sample arrays allocated so far, by identity
    original,                    \* the record the reader created
    returned,                    \* the record preprocess_record returned
    pre_pc,                      \* "idle", "start", "loaded", "returned" (normal
                                 \* return) or "returned_original" (except path)
    \* ---- one record per further component; Idle while the component is not
    \* ---- the one under study
    appSettings,                 \* AppSettings, its config file and QSettings
    prefsDialog,                 \* PreferencesDialog (gui/dialogs/preferences.py)
    exportDialog,                \* ExportDialog and ExportWorker
    mainClose,                   \* MainWindow.closeEvent
    channelTree,                 \* ChannelTreeWidget
    plotCanvas,                  \* PlotCanvas
    tempFiles,                   \* ComtradeReader._try_comtrade_library
    datFile,                     \* ComtradeReader._read_dat_file_improved
    funcCall,                    \* a pure function, its argument and its value
    channelIndex,                \* channel indices from the reader to the plot
    toolbar                      \* AnalysisToolbar and MainToolbarWidget

guiVars == <<start_analysis_action, start_analysis_tool_action,
             stop_analysis_action, stop_analysis_tool_action,
             current_record, current_analysis, analysis_worker, nloads,
             workers, nworkers, eventQueue, finished_handled>>

mergeVars == <<input_events, merged_events, merge_pc>>

detectVars == <<time_axis, fault_events, returned_events, detect_pc>>

preVars == <<heap, original, returned, pre_pc>>

\* the components added last
moreComponentVars == <<datFile, funcCall, channelIndex, toolbar>>

componentVars == <<appSettings, prefsDialog, exportDialog, mainClose,
                   channelTree, plotCanvas, tempFiles, moreComponentVars>>

\* everything outside the Main Window part
nonGuiVars == <<mergeVars, detectVars, preVars, componentVars>>

\* everything outside the merge part
nonMergeVars == <<guiVars, detectVars, preVars, componentVars>>

\* everything outside the detector part
nonDetectVars == <<guiVars, mergeVars, preVars, componentVars>>

\* everything outside the reader and preprocessor part
nonPreVars == <<guiVars, mergeVars, detectVars, componentVars>>

\* the variables of Parts 1 to 4
coreVars == <<guiVars, mergeVars, detectVars, preVars>>

vars == <<coreVars, componentVars>>

(***************************************************************************)
(* Records as the Main Window sees them: an identity, the number of analog *)
(* channels and the length of the time axis (only "more than one sample"   *)
(* matters to the worker, main_window.py:66).  The n-th file that is       *)
(* loaded yields record n, with MaxAnalog analog channels and one or two   *)
(* samples; a load that fails leaves the window as it is.                  *)
(***************************************************************************)
NoRecord == [id |-> 0, analog |-> 0, tlen |-> 0]

LoadableRecords(n) ==
    { [id |-> n, analog |-> MaxAnalog, tlen |-> t] : t \in 1..2 }

\* AnalysisWorker.__init__ : not started yet
NoWorker == [pc |-> "none", is_cancelled |-> FALSE, record |-> NoRecord, i |-> 0]

\* QThread.isRunning(): from start() until run() has returned
isRunning(w) == workers[w].pc \notin {"none", "returned"}

RunningWorkers == { w \in Workers : isRunning(w) }

GuiInit ==
    /\ start_analysis_action = FALSE
    /\ start_analysis_tool_action = FALSE
    /\ stop_analysis_action = FALSE
    /\ stop_analysis_tool_action = FALSE
    /\ current_record = NoRecord
    /\ current_analysis = 0
    /\ analysis_worker = 0
    /\ nloads = 0
    /\ workers = [w \in Workers |-> NoWorker]
    /\ nworkers = 0
    /\ eventQueue = << >>
    /\ finished_handled = {}

(***************************************************************************)
(* MainWindow.load_comtrade_file: runs on the GUI thread whenever the user *)
(* opens a file (File > Open, recent files); nothing disables it while an  *)
(* analysis is running.  On success the record is replaced and both start  *)
(* actions are enabled; on failure only a message box is shown.            *)
(***************************************************************************)
load_comtrade_file(success, rec) ==
    /\ UNCHANGED nonGuiVars
    /\ nloads < MaxLoads
    /\ nloads' = IF success THEN nloads + 1 ELSE nloads
    /\ IF success
         THEN /\ current_record' = rec
              /\ start_analysis_action' = TRUE
              /\ start_analysis_tool_action' = TRUE
         ELSE UNCHANGED <<current_record, start_analysis_action,
                          start_analysis_tool_action>>
    /\ UNCHANGED <<stop_analysis_action, stop_analysis_tool_action,
                   current_analysis, analysis_worker, workers, nworkers,
                   eventQueue, finished_handled>>

(***************************************************************************)
(* MainWindow.start_analysis: triggered by either start action (menu, F5,  *)
(* toolbar), so only while one of them is enabled.                         *)
(***************************************************************************)
start_analysis ==
    /\ UNCHANGED nonGuiVars
    /\ start_analysis_action \/ start_analysis_tool_action
    /\ nworkers < MaxWorkers
    /\ IF current_record = NoRecord
         THEN UNCHANGED guiVars
         ELSE /\ nworkers' = nworkers + 1
              /\ analysis_worker' = nworkers + 1
              /\ workers' = [workers EXCEPT ![nworkers + 1] =
                                [pc |-> "check_cancel", is_cancelled |-> FALSE,
                                 record |-> current_record, i |-> 0]]
              /\ start_analysis_action' = FALSE
              /\ start_analysis_tool_action' = FALSE
              /\ stop_analysis_action' = TRUE
              /\ stop_analysis_tool_action' = TRUE
              /\ UNCHANGED <<current_record, current_analysis, nloads,
                             eventQueue, finished_handled>>

\* AnalysisWorker.cancel
cancel(w) == workers' = [workers EXCEPT ![w].is_cancelled = TRUE]

(***************************************************************************)
(* MainWindow.stop_analysis: triggered by either stop action.              *)
(***************************************************************************)
stop_analysis ==
    /\ UNCHANGED nonGuiVars
    /\ stop_analysis_action \/ stop_analysis_tool_action
    /\ IF analysis_worker # 0 /\ isRunning(analysis_worker)
         THEN cancel(analysis_worker)
         ELSE UNCHANGED workers
    /\ UNCHANGED <<start_analysis_action, start_analysis_tool_action,
                   stop_analysis_action, stop_analysis_tool_action,
                   current_record, current_analysis, analysis_worker, nloads,
                   nworkers, eventQueue, finished_handled>>

(***************************************************************************)
(* AnalysisWorker.run, one step per stretch of code that starts with a     *)
(* read of is_cancelled or with the call of detect_faults.  The progress_updated emissions only drive the progress   *)
(* bar and the status text and are not modelled.  When run() returns the   *)
(* QThread emits finished; every signal of the worker is delivered to the  *)
(* GUI thread through its event queue, in emission order.                  *)
(***************************************************************************)
Signal(name, w, rec) == [sig |-> name, worker |-> w, record |-> rec]

\* run() returns after emitting the signals sigs; QThread then emits finished
run_return(w, sigs) ==
    /\ workers' = [workers EXCEPT ![w].pc = "returned"]
    /\ eventQueue' = eventQueue \o sigs \o << Signal("finished", w, 0) >>

run_goto(w, label) ==
    /\ workers' = [workers EXCEPT ![w].pc = label]
    /\ UNCHANGED eventQueue

\* main_window.py:56-77: first cancellation check, then the detector and the
\* feature extractor are set up (needs more than one sample)
run_check_cancel(w) ==
    /\ workers[w].pc = "check_cancel"
    /\ IF workers[w].is_cancelled
         THEN run_return(w, << >>)
         ELSE IF workers[w].record.tlen > 1
                THEN run_goto(w, "loop")
                ELSE run_return(w, << Signal("error_occurred", w, 0) >>)

\* main_window.py:79-89: one pass through the loop head: either the loop is
\* over (line 89), or the flag is read (line 80) and, when it is clear, the
\* features of channel i are extracted (lines 83-87)
run_loop(w) ==
    /\ workers[w].pc = "loop"
    /\ IF workers[w].i < workers[w].record.analog
         THEN IF workers[w].is_cancelled
                THEN run_return(w, << >>)
                ELSE /\ workers' = [workers EXCEPT ![w].i = @ + 1]
                     /\ UNCHANGED eventQueue
         ELSE run_goto(w, "detect")

\* main_window.py:92  fault_detector.detect_faults(self.record)
run_detect(w) ==
    /\ workers[w].pc = "detect"
    /\ run_goto(w, "after_detect")

\* main_window.py:94-95
run_after_detect(w) ==
    /\ workers[w].pc = "after_detect"
    /\ IF workers[w].is_cancelled
         THEN run_return(w, << >>)
         ELSE run_goto(w, "report")

\* main_window.py:97-122: build the result and emit analysis_completed, or
\* an exception reaches the handler and error_occurred is emitted
run_report(w, raises) ==
    /\ workers[w].pc = "report"
    /\ IF raises
         THEN run_return(w, << Signal("error_occurred", w, 0) >>)
         ELSE run_return(w, << Signal("analysis_completed", w,
                                      workers[w].record.id) >>)

run(w) ==
    /\ UNCHANGED nonGuiVars
    /\ \/ run_check_cancel(w)
       \/ run_loop(w)
       \/ run_detect(w)
       \/ run_after_detect(w)
       \/ \E raises \in BOOLEAN : run_report(w, raises)
    /\ UNCHANGED <<start_analysis_action, start_analysis_tool_action,
                   stop_analysis_action, stop_analysis_tool_action,
                   current_record, current_analysis, analysis_worker, nloads,
                   nworkers, finished_handled>>

(***************************************************************************)
(* Slots of the Main Window, run by the GUI event loop for the signal at   *)
(* the head of the queue.                                                  *)
(***************************************************************************)
Pending(name) == eventQueue # << >> /\ Head(eventQueue).sig = name

\* main_window.py:591-599
on_analysis_completed ==
    /\ UNCHANGED nonGuiVars
    /\ Pending("analysis_completed")
    /\ current_analysis' = Head(eventQueue).record
    /\ eventQueue' = Tail(eventQueue)
    /\ UNCHANGED <<start_analysis_action, start_analysis_tool_action,
                   stop_analysis_action, stop_analysis_tool_action,
                   current_record, analysis_worker, nloads, workers,
                   nworkers, finished_handled>>

\* main_window.py:601-604
on_analysis_error ==
    /\ UNCHANGED nonGuiVars
    /\ Pending("error_occurred")
    /\ eventQueue' = Tail(eventQueue)
    /\ UNCHANGED <<start_analysis_action, start_analysis_tool_action,
                   stop_analysis_action, stop_analysis_tool_action,
                   current_record, current_analysis, analysis_worker, nloads,
                   workers, nworkers, finished_handled>>

\* on_analysis_finished without the two setEnabled(True) calls
on_analysis_finished_mut ==
    /\ UNCHANGED nonGuiVars
    /\ Pending("finished")
    /\ stop_analysis_action' = FALSE
    /\ stop_analysis_tool_action' = FALSE
    /\ analysis_worker' = 0
    /\ finished_handled' = finished_handled \cup {Head(eventQueue).worker}
    /\ eventQueue' = Tail(eventQueue)
    /\ UNCHANGED <<start_analysis_action, start_analysis_tool_action,
                   current_record, current_analysis, nloads, workers, nworkers>>

\* main_window.py:606-620
on_analysis_finished ==
    /\ UNCHANGED nonGuiVars
    /\ Pending("finished")
    /\ start_analysis_action' = TRUE
    /\ start_analysis_tool_action' = TRUE
    /\ stop_analysis_action' = FALSE
    /\ stop_analysis_tool_action' = FALSE
    /\ analysis_worker' = 0
    /\ finished_handled' = finished_handled \cup {Head(eventQueue).worker}
    /\ eventQueue' = Tail(eventQueue)
    /\ UNCHANGED <<current_record, current_analysis, nloads, workers, nworkers>>

GuiNext ==
    \/ \E success \in BOOLEAN, rec \in LoadableRecords(nloads + 1) :
          load_comtrade_file(success, rec)
    \/ start_analysis
    \/ stop_analysis
    \/ \E w \in Workers : run(w)
    \/ on_analysis_completed
    \/ on_analysis_error
    \/ on_analysis_finished

MergeIdle ==
    /\ input_events = << >>
    /\ merged_events = << >>
    /\ merge_pc = "idle"

DetectIdle ==
    /\ time_axis = << >>
    /\ fault_events = << >>
    /\ returned_events = << >>
    /\ detect_pc = "idle"

\* a record with no arrays, before the reader has created one
NoPreRecord ==
    [time_axis |-> 0, analog_channels |-> << >>, digital_channels |-> << >>,
     frequency |-> 0, sampling_rate |-> 0]

PreIdle ==
    /\ heap = << >>
    /\ original = NoPreRecord
    /\ returned = NoPreRecord
    /\ pre_pc = "idle"

\* the value of a component's record while the component is not under study
Idle == [pc |-> "idle"]

\* every component except the named ones is idle
ComponentsIdleExcept(names) ==
    /\ "appSettings" \in names \/ appSettings = Idle
    /\ "prefsDialog" \in names \/ prefsDialog = Idle
    /\ "exportDialog" \in names \/ exportDialog = Idle
    /\ "mainClose" \in names \/ mainClose = Idle
    /\ "channelTree" \in names \/ channelTree = Idle
    /\ "plotCanvas" \in names \/ plotCanvas = Idle
    /\ "tempFiles" \in names \/ tempFiles = Idle
    /\ "datFile" \in names \/ datFile = Idle
    /\ "funcCall" \in names \/ funcCall = Idle
    /\ "channelIndex" \in names \/ channelIndex = Idle
    /\ "toolbar" \in names \/ toolbar = Idle

\* Parts 1 to 4 at rest
CoreIdle == GuiInit /\ MergeIdle /\ DetectIdle /\ PreIdle

Init == GuiInit /\ MergeIdle /\ DetectIdle /\ PreIdle /\ ComponentsIdleExcept({})

Next == GuiNext

Spec == Init /\ [][Next]_vars

\* The GUI event loop keeps dispatching queued signals and every started
\* thread keeps being scheduled.
FairSpec ==
    /\ Spec
    /\ WF_vars(on_analysis_completed)
    /\ WF_vars(on_analysis_error)
    /\ WF_vars(on_analysis_finished)
    /\ \A w \in Workers : WF_vars(run(w))

(***************************************************************************)
(* Fault events (src/models/data_models.py:231-240).  Times are integer    *)
(* ticks.  affected_channels is kept as a set (the code rebuilds the list   *)
(* from a set on every merge).  A description is the sequence of the texts  *)
(* joined by "; "; each text is represented by a label.  Confidences are    *)
(* integers in units of 1/ConfUnit so that halving stays exact.             *)
(***************************************************************************)
RECURSIVE Pow2(_)
Pow2(n) == IF n = 0 THEN 1 ELSE 2 * Pow2(n - 1)

ConfUnit == Pow2(MaxEvents)

FaultEvent(s, e, t, chans, sev, conf, descr) ==
    [start_time |-> s, end_time |-> e, fault_type |-> t,
     affected_channels |-> chans, severity |-> sev, confidence |-> conf,
     description |-> descr]

Max(a, b) == IF a >= b THEN a ELSE b
Min(a, b) == IF a <= b THEN a ELSE b

\* list.sort(key=lambda x: x.start_time): stable, ascending
RECURSIVE InsertByStart(_, _)
InsertByStart(sorted, ev) ==
    IF sorted = << >> THEN << ev >>
    ELSE IF sorted[Len(sorted)].start_time <= ev.start_time
           THEN Append(sorted, ev)
           ELSE Append(InsertByStart(SubSeq(sorted, 1, Len(sorted) - 1), ev),
                       sorted[Len(sorted)])

RECURSIVE SortByStart(_)
SortByStart(events) ==
    IF events = << >> THEN << >>
    ELSE InsertByStart(SortByStart(SubSeq(events, 1, Len(events) - 1)),
                       events[Len(events)])

\* fault_detector.py:635-636: the merge condition
ShouldMerge(last, current) ==
    /\ current.start_time <= last.end_time
    /\ current.fault_type = last.fault_type

\* MergeInto taking the end time of current instead of the later one
MergeInto_mut(last, current) ==
    [last EXCEPT
       !.end_time = current.end_time,
       !.severity = Max(last.severity, current.severity),
       !.confidence = (last.confidence + current.confidence) \div 2,
       !.affected_channels = last.affected_channels \cup current.affected_channels,
       !.description = last.description \o current.description]

\* fault_detector.py:639-643: fold current into last
MergeInto(last, current) ==
    [last EXCEPT
       !.end_time = Max(last.end_time, current.end_time),
       !.severity = Max(last.severity, current.severity),
       !.confidence = (last.confidence + current.confidence) \div 2,
       !.affected_channels = last.affected_channels \cup current.affected_channels,
       !.description = last.description \o current.description]

\* fault_detector.py:631-645: the pass over events[1:], merged so far in acc
RECURSIVE MergePass(_, _)
MergePass(acc, rest) ==
    IF rest = << >> THEN acc
    ELSE LET last == acc[Len(acc)]
             current == Head(rest)
         IN IF ShouldMerge(last, current)
              THEN MergePass([acc EXCEPT ![Len(acc)] = MergeInto(last, current)],
                             Tail(rest))
              ELSE MergePass(Append(acc, current), Tail(rest))

\* fault_detector.py:621-647
merge_overlapping_events(events) ==
    IF events = << >> THEN events
    ELSE LET sorted == SortByStart(events)
         IN MergePass(<< sorted[1] >>, Tail(sorted))

(***************************************************************************)
(* SpecMerge: the merge post-pass applied to every list of at most         *)
(* MaxEvents events with end >= start.  The i-th event collected carries   *)
(* the description label i.                                                *)
(***************************************************************************)
\* The values input events are drawn from: two times (so that events can
\* coincide, touch or be disjoint), two of the fault types, two channel
\* names and two levels.
EventTimes == {0, 1}
FaultTypes == {"UNDERVOLTAGE", "OVERCURRENT"}
ChannelNames == { <<"V", "A">>, <<"I", "A">> }
Levels == {0, 1}

\* An input event draws its severity and its confidence together, as one
\* level; the merge treats the two fields separately.
EventChoices(label) ==
    UNION { { FaultEvent(s, e, t, {c}, lv, lv * ConfUnit, << label >>) :
                e \in { x \in EventTimes : x >= s }, t \in FaultTypes,
                c \in ChannelNames, lv \in Levels }
            : s \in EventTimes }

MergeInit ==
    /\ GuiInit
    /\ DetectIdle
    /\ PreIdle
    /\ ComponentsIdleExcept({})
    /\ input_events = << >>
    /\ merged_events = << >>
    /\ merge_pc = "build"

\* the caller collects one more event (fault_detector.py:85-91)
add_event(ev) ==
    /\ merge_pc = "build"
    /\ Len(input_events) < MaxEvents
    /\ input_events' = Append(input_events, ev)
    /\ UNCHANGED <<merged_events, merge_pc, nonMergeVars>>

\* fault_detector.py:94
merge_call ==
    /\ merge_pc = "build"
    /\ merged_events' = merge_overlapping_events(input_events)
    /\ merge_pc' = "done"
    /\ UNCHANGED <<input_events, nonMergeVars>>

MergeNext ==
    \/ \E ev \in EventChoices(Len(input_events) + 1) : add_event(ev)
    \/ merge_call

SpecMerge == MergeInit /\ [][MergeNext]_vars

(***************************************************************************)
(* FaultDetector.detect_faults (src/analysis/fault_detector.py:66-104).    *)
(* Times are ticks of 0.01 s, confidences and severities are tenths.  What *)
(* a detector finds depends on the samples; the model lets every detector  *)
(* find any of the intervals or points its index arithmetic can produce.   *)
(* Channel names are sequences of characters.                              *)
(***************************************************************************)
MinFaultDuration == 1      \* config.min_fault_duration = 0.01 s
TransientWindow == 10      \* config.transient_window = 0.1 s
ShortCircuitSpan == 50     \* "+ 0.5": a short circuit is assumed to last 0.5 s
SagMaxDuration == 100      \* sags and swells last at most 1.0 s
RmsMinWindow == 10         \* max(10, len(data) // 100)
TransientMinWindow == 5    \* window_size < 5 -> 5

UpperChar(c) ==
    CASE c = "a" -> "A" [] c = "b" -> "B" [] c = "c" -> "C"
      [] c = "i" -> "I" [] c = "u" -> "U" [] c = "v" -> "V"
      [] c = "e" -> "E" [] c = "h" -> "H" [] c = "p" -> "P"
      [] c = "s" -> "S"
      [] OTHER -> c

\* str.upper()
Upper(name) == [k \in 1..Len(name) |-> UpperChar(name[k])]

\* keyword in name
Contains(name, keyword) ==
    \E k \in 0..(Len(name) - Len(keyword)) :
        \A j \in 1..Len(keyword) : name[k + j] = keyword[j]

\* the two-character Chinese keywords are written in pinyin, one string per
\* character
VoltageKeywords == { <<"V">>, <<"V", "O", "L", "T">>, <<"U">>, <<"dian4", "ya1">> }
CurrentKeywords == { <<"I">>, <<"C", "U", "R", "R">>, <<"A">>, <<"dian4", "liu2">> }

\* The analog channels of the record given to the detector, all with
\* NumSamples samples
RecordAnalog == << <<"V", "A">>, <<"V", "B">>, <<"V", "C">>, <<"I", "A">> >>

\* _find_voltage_channels / _find_current_channels: the matching channels,
\* in record order
RECURSIVE SelectChannels(_, _)
SelectChannels(channels, keywords) ==
    IF channels = << >> THEN << >>
    ELSE LET rest == SelectChannels(Tail(channels), keywords)
         IN IF \E kw \in keywords : Contains(Upper(Head(channels)), kw)
              THEN << Head(channels) >> \o rest
              ELSE rest

find_voltage_channels == SelectChannels(RecordAnalog, VoltageKeywords)
find_current_channels == SelectChannels(RecordAnalog, CurrentKeywords)

Range(seq) == { seq[k] : k \in 1..Len(seq) }

\* _identify_phase without the upper-casing of the name
identify_phase_mut(name) ==
    LET up == name
    IN IF Contains(up, <<"A">>) /\ ~Contains(up, <<"B">>) /\ ~Contains(up, <<"C">>)
         THEN "A"
         ELSE IF Contains(up, <<"B">>) THEN "B"
         ELSE IF Contains(up, <<"C">>) THEN "C"
         ELSE ""

\* _identify_phase
identify_phase(name) ==
    LET up == Upper(name)
    IN IF Contains(up, <<"A">>) /\ ~Contains(up, <<"B">>) /\ ~Contains(up, <<"C">>)
         THEN "A"
         ELSE IF Contains(up, <<"B">>) THEN "B"
         ELSE IF Contains(up, <<"C">>) THEN "C"
         ELSE ""

\* ComtradeRecord.duration (data_models.py:161-166)
duration(ta) == IF Len(ta) > 1 THEN ta[Len(ta)] - ta[1] ELSE 0

\* len(_calculate_rms_sequence(data, time_axis)) for n samples
RmsLen(n) ==
    LET window == Max(RmsMinWindow, n \div 100)
    IN IF n = 0 THEN 0 ELSE Max(0, n - window + 1)

\* _find_fault_intervals: a run of True at mask[start:end] (0-based, end
\* exclusive) of a mask of length m gives (time_axis[start], time_axis[end-1])
find_fault_intervals(m, ta) ==
    { << ta[se[1] + 1], ta[se[2]] >> :
        se \in { x \in (0..(m - 1)) \X (1..m) :
                    x[1] < x[2] /\ x[1] < Len(ta) /\ x[2] <= Len(ta) } }

Emit(ev) ==
    /\ Len(fault_events) < MaxDetected
    /\ fault_events' = Append(fault_events, ev)
    /\ UNCHANGED <<time_axis, returned_events, detect_pc>>

Advance(next) ==
    /\ detect_pc' = next
    /\ UNCHANGED <<time_axis, fault_events, returned_events>>

\* an exception reaches detect_faults' handler (lines 102-104)
RaiseInDetect ==
    /\ returned_events' = << >>
    /\ detect_pc' = "returned"
    /\ UNCHANGED <<time_axis, fault_events>>

NextLabel == Len(fault_events) + 1

\* fault_detector.py:106-140 with 489-540 and 542-594.  Line 121 divides by
\* record.duration * record.frequency and converts the quotient to int, which
\* raises when the duration is 0.
detect_voltage_faults ==
    /\ detect_pc = "voltage"
    /\ UNCHANGED nonDetectVars
    /\ IF find_voltage_channels # << >> /\ duration(time_axis) = 0
         THEN RaiseInDetect
         ELSE \/ Advance("current")
              \/ \E ch \in Range(find_voltage_channels),
                    iv \in find_fault_intervals(RmsLen(NumSamples),
                                SubSeq(time_axis, 1, RmsLen(NumSamples))) :
                    \/ /\ iv[2] - iv[1] >= MinFaultDuration
                       /\ \E t \in {"UNDERVOLTAGE", "OVERVOLTAGE"} :
                            Emit(FaultEvent(iv[1], iv[2], t, {ch}, 10,
                                            8 * ConfUnit, << NextLabel >>))
                    \/ /\ MinFaultDuration <= iv[2] - iv[1]
                       /\ iv[2] - iv[1] <= SagMaxDuration
                       /\ \E t \in {"VOLTAGE_SAG", "VOLTAGE_SWELL"} :
                            Emit(FaultEvent(iv[1], iv[2], t, {ch}, 10,
                                            7 * ConfUnit, << NextLabel >>))

\* fault_detector.py:142-184.  Lines 168-170 index rms_values (RmsLen
\* entries, fewer than the samples) with a boolean array as long as the time
\* axis, which raises as soon as an interval is long enough to be reported.
detect_current_faults ==
    /\ detect_pc = "current"
    /\ UNCHANGED nonDetectVars
    /\ \/ Advance("frequency")
       \/ /\ find_current_channels # << >>
          /\ \E iv \in find_fault_intervals(RmsLen(NumSamples), time_axis) :
                iv[2] - iv[1] >= MinFaultDuration
          /\ RmsLen(NumSamples) # Len(time_axis)
          /\ RaiseInDetect

\* fault_detector.py:186-225 with 471-487: the frequency sequence has one
\* entry per sample when there are at least 10 samples
detect_frequency_faults ==
    /\ detect_pc = "frequency"
    /\ UNCHANGED nonDetectVars
    /\ \/ Advance("harmonic")
       \/ /\ find_voltage_channels # << >>
          /\ NumSamples >= 10
          /\ \E iv \in find_fault_intervals(NumSamples, time_axis) :
                /\ iv[2] - iv[1] >= MinFaultDuration
                /\ Emit(FaultEvent(iv[1], iv[2], "FREQUENCY_DEVIATION",
                                   {find_voltage_channels[1]}, 10,
                                   7 * ConfUnit, << NextLabel >>))

\* fault_detector.py:227-266: needs the feature extractor of lines 78-80
detect_harmonic_faults ==
    /\ detect_pc = "harmonic"
    /\ UNCHANGED nonDetectVars
    /\ \/ Advance("unbalance")
       \/ /\ Len(time_axis) > 1
          /\ \E ch \in Range(find_voltage_channels \o find_current_channels) :
                Emit(FaultEvent(0, duration(time_axis), "HARMONIC_DISTORTION",
                                {ch}, 10, 8 * ConfUnit, << NextLabel >>))

PhaseChannels(phase) ==
    { ch \in Range(find_voltage_channels) : identify_phase(ch) = phase }

\* fault_detector.py:268-321: at most one event
detect_unbalance_faults ==
    /\ detect_pc = "unbalance"
    /\ UNCHANGED nonDetectVars
    /\ \/ Advance("short_circuit")
       \/ /\ Len(find_voltage_channels) >= 3
          /\ \A phase \in {"A", "B", "C"} : PhaseChannels(phase) # {}
          /\ Len(fault_events) < MaxDetected
          /\ fault_events' =
                Append(fault_events,
                       FaultEvent(0, duration(time_axis), "PHASE_TO_PHASE",
                                  UNION { PhaseChannels(phase) : phase \in {"A", "B", "C"} },
                                  10, 6 * ConfUnit, << NextLabel >>))
          /\ detect_pc' = "short_circuit"
          /\ UNCHANGED <<time_axis, returned_events>>

\* _classify_short_circuit_type (fault_detector.py:596-619): decided by the
\* fault currents when there are three current channels
classify_short_circuit_type ==
    IF Len(find_current_channels) >= 3
      THEN {"SINGLE_PHASE_GROUND", "TWO_PHASE_GROUND", "THREE_PHASE",
            "PHASE_TO_PHASE"}
      ELSE {"PHASE_TO_PHASE"}

\* fault_detector.py:323-371: point indexes np.diff(...), 0-based
detect_short_circuit_faults ==
    /\ detect_pc = "short_circuit"
    /\ UNCHANGED nonDetectVars
    /\ \/ Advance("transient")
       \/ \E ch \in Range(find_current_channels),
             point \in 0..(NumSamples - 2),
             t \in classify_short_circuit_type :
             LET start_time == IF point < Len(time_axis)
                                 THEN time_axis[point + 1] ELSE 0
                 end_time == Min(start_time + ShortCircuitSpan,
                                 duration(time_axis))
             IN Emit(FaultEvent(start_time, end_time, t, {ch}, 10,
                                7 * ConfUnit, << NextLabel >>))

\* fault_detector.py:373-410: i ranges over range(len(signal_diff) - window_size)
detect_transient_faults ==
    /\ detect_pc = "transient"
    /\ UNCHANGED nonDetectVars
    /\ \/ Advance("merge")
       \/ \E ch \in Range(RecordAnalog),
             i \in 0..((NumSamples - 1)
                         - Max(TransientMinWindow, NumSamples \div 100) - 1) :
             LET start_time == IF i < Len(time_axis) THEN time_axis[i + 1] ELSE 0
                 end_time == start_time + TransientWindow
             IN Emit(FaultEvent(start_time,
                                Min(end_time, duration(time_axis)),
                                "TRANSIENT", {ch}, 5, 5 * ConfUnit,
                                << NextLabel >>))

\* fault_detector.py:94-100: merge, sort by start time, return
detect_return ==
    /\ detect_pc = "merge"
    /\ UNCHANGED nonDetectVars
    /\ returned_events' = SortByStart(merge_overlapping_events(fault_events))
    /\ detect_pc' = "returned"
    /\ UNCHANGED <<time_axis, fault_events>>

\* the time axes read from a data file: NumSamples time stamps from t0 on,
\* step apart (a file may carry the same time stamp on every sample)
TimeSteps == {0, 1}

TimeAxes ==
    { [k \in 1..NumSamples |-> t0 + (k - 1) * step] :
        t0 \in 0..MaxTick, step \in TimeSteps }

DetectInit ==
    /\ GuiInit
    /\ MergeIdle
    /\ PreIdle
    /\ ComponentsIdleExcept({})
    /\ time_axis \in TimeAxes
    /\ fault_events = << >>
    /\ returned_events = << >>
    /\ detect_pc = "voltage"

DetectNext ==
    \/ detect_voltage_faults
    \/ detect_current_faults
    \/ detect_frequency_faults
    \/ detect_harmonic_faults
    \/ detect_unbalance_faults
    \/ detect_short_circuit_faults
    \/ detect_transient_faults
    \/ detect_return

SpecDetect == DetectInit /\ [][DetectNext]_vars

(***************************************************************************)
(* ComtradeReader record creation (src/core/comtrade_reader.py) and        *)
(* DataProcessor.preprocess_record (src/core/data_processor.py).           *)
(*                                                                         *)
(* A numpy array is an entry of heap: its identity is its position, its    *)
(* content is abstracted to its length and to the set of sample positions  *)
(* (1-based) the caller has overwritten since the array was created.  A    *)
(* record refers to its arrays by identity.  sampling_rate stands for      *)
(* 1.0 / (time_axis[1] - time_axis[0]), which a copy of the time axis      *)
(* shares.  Arrays nobody refers to any more are not kept.                 *)
(***************************************************************************)
None == 0                      \* Python's None where a rate is expected
NominalFrequency == 50         \* ComtradeRecord.frequency, the line frequency
SamplingRates == {100, 200}    \* sampling rates of the files read
TargetRates == {None, 50, 100, 200}   \* config['target_sampling_rate']
FiltfiltMinLength == 19        \* filtfilt of an order-5 filter pads 18 samples

NewArray(n) == [len |-> n, written |-> {}]

\* the arrays of a record: time axis, analog data, digital data
ArrayIds(rec) == << rec.time_axis >> \o rec.analog_channels \o rec.digital_channels

ChannelArrayIds(rec) == Range(rec.analog_channels) \cup Range(rec.digital_channels)

\* _create_manual_record (comtrade_reader.py:847-881) with _extract_time_axis
\* (883-912), _create_analog_channels (915-1002) and _create_digital_channels
\* (1004-1033): dat_data has rows rows and columns columns; column 0 is the
\* sample number, column 1 the time stamp, then one column per channel.  A
\* channel whose column is missing is left out.  Every array is a column of
\* dat_data, np.arange(len(dat_data)) or np.zeros(len(time_axis)).
create_manual_record(rows, columns, rate) ==
    LET analog == { i \in 1..MaxAnalog : 2 + (i - 1) < columns }
        digital == { i \in 1..MaxDigital : 2 + MaxAnalog + (i - 1) < columns }
        na == Cardinality(analog)
        nd == Cardinality(digital)
    IN [arrays |-> [k \in 1..(1 + na + nd) |-> NewArray(rows)],
        record |-> [time_axis |-> 1,
                    analog_channels |-> [k \in 1..na |-> 1 + k],
                    digital_channels |-> [k \in 1..nd |-> 1 + na + k],
                    frequency |-> NominalFrequency,
                    sampling_rate |-> rate]]

\* _create_record (comtrade_reader.py:1090-1163): the comtrade library hands
\* over the time stamps and one list per channel, each total_samples long
create_record(total_samples, rate) ==
    [arrays |-> [k \in 1..(1 + MaxAnalog + MaxDigital) |-> NewArray(total_samples)],
     record |-> [time_axis |-> 1,
                 analog_channels |-> [k \in 1..MaxAnalog |-> 1 + k],
                 digital_channels |-> [k \in 1..MaxDigital |-> 1 + MaxAnalog + k],
                 frequency |-> NominalFrequency,
                 sampling_rate |-> rate]]

\* load_file (comtrade_reader.py:105-126) for a file that can be read: the
\* comtrade library is tried first (_try_comtrade_library, 128-161), the
\* built-in parser is the fallback (_manual_parse_comtrade, 187-215)
load_file(library_ok, rows, columns, rate) ==
    /\ pre_pc = "start"
    /\ UNCHANGED nonPreVars
    /\ LET created == IF library_ok
                        THEN create_record(rows, rate)
                        ELSE create_manual_record(rows, columns, rate)
       IN /\ heap' = created.arrays
          /\ original' = created.record
    /\ pre_pc' = "loaded"
    /\ UNCHANGED returned

\* _get_default_config (data_processor.py:213-231)
get_default_config ==
    [process_analog |-> TRUE, process_digital |-> TRUE, remove_dc |-> TRUE,
     apply_filter |-> FALSE, filter_type |-> "lowpass", normalize |-> FALSE,
     resample |-> FALSE, remove_spikes |-> FALSE,
     target_sampling_rate |-> None]

\* the configurations a caller can pass
Configs ==
    [process_analog : BOOLEAN, process_digital : BOOLEAN, remove_dc : BOOLEAN,
     apply_filter : BOOLEAN, filter_type : {"lowpass", "moving_average"},
     normalize : BOOLEAN, resample : BOOLEAN, remove_spikes : BOOLEAN,
     target_sampling_rate : TargetRates]

\* A channel's data while it is being processed: its length, and whether it
\* is a new array (fresh) or still the array the channel started with.
Fresh(n) == [len |-> n, fresh |-> TRUE]

\* math_utils.py:355-365: data - np.mean(data)
remove_dc_component(data) == Fresh(data.len)

\* data_processor.py:123-148.  butter_filter (math_utils.py:99-128) raises
\* for fewer than FiltfiltMinLength samples and the data is returned as it
\* is; moving_average (math_utils.py:131-151) returns a new array as long as
\* the data.
apply_filter(data, filter_type) ==
    IF filter_type = "moving_average" \/ data.len >= FiltfiltMinLength
      THEN Fresh(data.len)
      ELSE data

\* math_utils.py:368-406
normalize_signal(data) == Fresh(data.len)

\* math_utils.py:256-279: new_length = int(len(data) * target_fs / original_fs)
resample_signal(data, original_fs, target_fs) ==
    IF original_fs = target_fs
      THEN Fresh(data.len)
      ELSE Fresh((data.len * target_fs) \div original_fs)

\* one iteration of the loop of _preprocess_analog_channels
\* (data_processor.py:70-98); an exception in the resampling (a time axis
\* with fewer than two samples, a target rate of None) leaves the channel
\* with what it had, line 97
preprocess_analog_channel(data, record, tlen, config) ==
    LET d1 == IF config.remove_dc THEN remove_dc_component(data) ELSE data
        d2 == IF config.apply_filter THEN apply_filter(d1, config.filter_type) ELSE d1
        d3 == IF config.normalize THEN normalize_signal(d2) ELSE d2
        target_fs == config.target_sampling_rate
    IN IF config.resample /\ target_fs # record.frequency
         THEN IF tlen < 2 \/ target_fs = None
                THEN d3
                ELSE resample_signal(d3, record.sampling_rate, target_fs)
         ELSE d3

\* _remove_digital_spikes (data_processor.py:150-163)
remove_digital_spikes(data) == IF data.len < 3 THEN data ELSE Fresh(data.len)

\* one iteration of the loop of _preprocess_digital_channels
\* (data_processor.py:100-115); the reader's digital data is boolean already
preprocess_digital_channel(data, config) ==
    IF config.remove_spikes THEN remove_digital_spikes(data) ELSE data

\* _copy_record without the copies of the sample arrays: the new channels
\* share the arrays of the old ones
copy_record_mut(record, base) ==
    [record EXCEPT !.time_axis = base + 1]

\* _copy_record (data_processor.py:165-211): new channels with data.copy(),
\* time_axis.copy().  The copies go to heap positions base + 1 ..., in the
\* order of ArrayIds.
copy_record(record, base) ==
    [record EXCEPT
        !.time_axis = base + 1,
        !.analog_channels = [k \in 1..Len(@) |-> base + 1 + k],
        !.digital_channels =
            [k \in 1..Len(@) |-> base + 1 + Len(record.analog_channels) + k]]

\* preprocess_record (data_processor.py:29-68).  config_type tells whether
\* config is None ("NoneType"), a mapping ("dict", with the entries of
\* config) or an object without get ("other"), for which line 51 raises and
\* the except clause returns the record passed in.
preprocess_record(config_type, config) ==
    /\ pre_pc = "loaded"
    /\ UNCHANGED nonPreVars
    /\ IF config_type = "other"
         THEN /\ returned' = original
              /\ pre_pc' = "returned_original"
              /\ UNCHANGED <<heap, original>>
         ELSE LET cfg == IF config_type = "NoneType" THEN get_default_config ELSE config
                  base == Len(heap)
                  processed_record == copy_record(original, base)
                  na == Len(original.analog_channels)
                  nd == Len(original.digital_channels)
                  tlen == heap[original.time_axis].len
                  \* the copy of array id, as a channel of processed_record holds it
                  Start(id) == [len |-> heap[id].len, fresh |-> FALSE]
                  analog == [k \in 1..na |->
                               IF cfg.process_analog
                                 THEN preprocess_analog_channel(
                                          Start(original.analog_channels[k]),
                                          processed_record, tlen, cfg)
                                 ELSE Start(original.analog_channels[k])]
                  digital == [k \in 1..nd |->
                               IF cfg.process_digital
                                 THEN preprocess_digital_channel(
                                          Start(original.digital_channels[k]), cfg)
                                 ELSE Start(original.digital_channels[k])]
                  \* the heap position of the array a channel ends up with
                  Final(d, id, slot) == IF d.fresh THEN slot ELSE id
              IN /\ heap' = heap \o << NewArray(tlen) >>
                                 \o [k \in 1..na |-> NewArray(analog[k].len)]
                                 \o [k \in 1..nd |-> NewArray(digital[k].len)]
                 /\ returned' =
                      [processed_record EXCEPT
                         !.analog_channels =
                            [k \in 1..na |-> Final(analog[k], @[k], base + 1 + k)],
                         !.digital_channels =
                            [k \in 1..nd |-> Final(digital[k], @[k], base + 1 + na + k)]]
                 /\ pre_pc' = "returned"
                 /\ UNCHANGED original

RECURSIVE CountWritten(_)
CountWritten(h) ==
    IF h = << >> THEN 0 ELSE Cardinality(Head(h).written) + CountWritten(Tail(h))

\* the caller assigns to one sample of a channel array of the returned
\* record: returned.analog_channels[k].data[i] = ...
write_sample(id, i) ==
    /\ pre_pc \in {"returned", "returned_original"}
    /\ UNCHANGED nonPreVars
    /\ id \in ChannelArrayIds(returned)
    /\ i \in 1..heap[id].len
    /\ i \notin heap[id].written
    /\ CountWritten(heap) < MaxWrites
    /\ heap' = [heap EXCEPT ![id].written = @ \cup {i}]
    /\ UNCHANGED <<original, returned, pre_pc>>

PreInit ==
    /\ GuiInit
    /\ MergeIdle
    /\ DetectIdle
    /\ ComponentsIdleExcept({})
    /\ heap = << >>
    /\ original = NoPreRecord
    /\ returned = NoPreRecord
    /\ pre_pc = "start"

PreNext ==
    \/ \E library_ok \in BOOLEAN, rows \in 1..MaxLength,
          columns \in 2..(2 + MaxAnalog + MaxDigital), rate \in SamplingRates :
          load_file(library_ok, rows, columns, rate)
    \/ \E config_type \in {"NoneType", "dict", "other"}, config \in Configs :
          preprocess_record(config_type, config)
    \/ \E id \in 1..Len(heap), i \in 1..(4 * MaxLength) : write_sample(id, i)

SpecPre == PreInit /\ [][PreNext]_vars

(***************************************************************************)
(* AppSettings (src/config/settings.py).  The record appSettings holds the *)
(* three settings objects in memory, the two stores (config.json on disk   *)
(* and the QSettings entry "recent_files"), and a log of the last call:    *)
(* its name, its path argument, whether something failed inside it,        *)
(* whether an exception left it, and the in-memory settings before it;     *)
(* ncalls counts the calls made.                                           *)
(* Each settings object is cut down to the fields that tell values apart.  *)
(***************************************************************************)
PlotSettings == [line_width |-> 1, background_color |-> "white"]
AnalysisSettings == [fundamental_frequency |-> 50]
UISettings == [recent_files |-> << >>, max_recent_files |-> 10]

\* values a settings file written elsewhere may carry
OtherPlotSettings == [line_width |-> 2, background_color |-> "black"]
OtherAnalysisSettings == [fundamental_frequency |-> 60]
OtherUISettings == [recent_files |-> << >>, max_recent_files |-> 2]

\* a "ui" mapping that carries one key only
PartialUISettings == [max_recent_files |-> 1]

\* One entry of a parsed settings file: the key is missing, its value is no
\* mapping (a number, a list), or it is a mapping with the object's fields.
Section(kind, value) == [kind |-> kind, value |-> value]

SectionChoices(default, other) ==
    { Section("missing", default), Section("dict", other) }

\* A settings file: absent, not parseable as JSON, or a JSON object
File(kind, plot, analysis, ui) ==
    [kind |-> kind, plot |-> plot, analysis |-> analysis, ui |-> ui]

AbsentFile ==
    File("absent", Section("missing", PlotSettings),
         Section("missing", AnalysisSettings), Section("missing", UISettings))

CorruptFile == [AbsentFile EXCEPT !.kind = "corrupt"]

\* the files a user or another program can leave on disk
ExternalFiles ==
    {AbsentFile, CorruptFile} \cup
    { File("json", pl, an, ui) :
        pl \in SectionChoices(PlotSettings, OtherPlotSettings),
        an \in SectionChoices(AnalysisSettings, OtherAnalysisSettings)
                 \cup { Section("notdict", AnalysisSettings) },
        ui \in SectionChoices(UISettings, OtherUISettings)
                 \cup { Section("dict", PartialUISettings) } }

\* the paths handed to add_recent_file and what Path.resolve() makes of them
RawPaths == {"a.cfg", "./a.cfg", "b.cfg", "c.cfg"}

resolve(path) ==
    CASE path \in {"a.cfg", "./a.cfg"} -> "/cwd/a.cfg"
      [] path = "b.cfg" -> "/cwd/b.cfg"
      [] OTHER -> "/cwd/c.cfg"

\* the settings objects of an AppSettings
Memory(a) ==
    [plot_settings |-> a.plot_settings,
     analysis_settings |-> a.analysis_settings,
     ui_settings |-> a.ui_settings]

\* asdict(...) of the three objects, as json.dump writes it (lines 110-114)
ConfigData(a) ==
    File("json", Section("dict", a.plot_settings),
         Section("dict", a.analysis_settings), Section("dict", a.ui_settings))

Call(op, path, failed, escaped, before) ==
    [op |-> op, path |-> path, failed |-> failed, escaped |-> escaped,
     before |-> before]

\* list[:n]
Prefix(list, n) == SubSeq(list, 1, Min(Len(list), n))

\* list.remove(x): the first occurrence
RECURSIVE Remove(_, _)
Remove(list, x) ==
    IF list = << >> THEN << >>
    ELSE IF Head(list) = x THEN Tail(list)
    ELSE << Head(list) >> \o Remove(Tail(list), x)

\* AppSettings.__init__ up to line 79: default objects, load_settings not yet
\* called; config.json is whatever is on disk
SettingsStart(file) ==
    [pc |-> "constructed",
     ncalls |-> 0,
     plot_settings |-> PlotSettings,
     analysis_settings |-> AnalysisSettings,
     ui_settings |-> UISettings,
     config_file |-> file,
     qsettings |-> [recent_files |-> << >>],
     call |-> Call("__init__", "", FALSE, FALSE,
                   [plot_settings |-> PlotSettings,
                    analysis_settings |-> AnalysisSettings,
                    ui_settings |-> UISettings])]

\* _update_dataclass on the three sections in the order of lines 92-99 (and
\* 199-206): a section that is no mapping raises at data.items(), after the
\* sections before it have been applied.  The result carries the objects and
\* whether it raised.  _update_dataclass (lines 125-129) sets the attributes
\* named by the keys of the mapping and leaves the others as they are.
UpdateSections(a, file) ==
    LET Apply(obj, section) ==
            IF section.kind = "dict"
              THEN [key \in DOMAIN obj |->
                      IF key \in DOMAIN section.value THEN section.value[key]
                                                      ELSE obj[key]]
              ELSE obj
        a1 == [a EXCEPT !.plot_settings = Apply(@, file.plot)]
        a2 == [a1 EXCEPT !.analysis_settings = Apply(@, file.analysis)]
        a3 == [a2 EXCEPT !.ui_settings = Apply(@, file.ui)]
    IN IF file.plot.kind = "notdict" THEN [obj |-> a, raised |-> TRUE]
       ELSE IF file.analysis.kind = "notdict" THEN [obj |-> a1, raised |-> TRUE]
       ELSE IF file.ui.kind = "notdict" THEN [obj |-> a2, raised |-> TRUE]
       ELSE [obj |-> a3, raised |-> FALSE]

\* _load_qt_settings (lines 131-143)
LoadQtSettings(a) ==
    [a EXCEPT !.ui_settings.recent_files =
        Prefix(a.qsettings.recent_files, a.ui_settings.max_recent_files)]

\* the body of load_settings (lines 84-105); open_ok is whether the file can
\* be opened and read
LoadSettings(a, open_ok) ==
    IF a.config_file.kind = "absent"
      THEN [obj |-> LoadQtSettings(a), raised |-> FALSE]
    ELSE IF ~open_ok \/ a.config_file.kind = "corrupt"
      THEN [obj |-> a, raised |-> TRUE]
    ELSE LET updated == UpdateSections(a, a.config_file)
         IN IF updated.raised
              THEN updated
              ELSE [obj |-> LoadQtSettings(updated.obj), raised |-> FALSE]

\* the body of save_settings (lines 107-123).  outcome: "ok"; "open_fails"
\* (the file cannot be opened for writing); "dump_fails" (the file was
\* truncated by open and json.dump raised before it was complete).
SaveSettings(a, outcome) ==
    CASE outcome = "ok" ->
           [obj |-> [a EXCEPT !.config_file = ConfigData(a),
                              !.qsettings.recent_files = a.ui_settings.recent_files],
            raised |-> FALSE]
      [] outcome = "open_fails" -> [obj |-> a, raised |-> TRUE]
      [] OTHER -> [obj |-> [a EXCEPT !.config_file = CorruptFile], raised |-> TRUE]

SaveOutcomes == {"ok", "open_fails", "dump_fails"}

\* load_settings, public; also the last step of __init__ (line 82)
load_settings(open_ok) ==
    /\ appSettings.pc \in {"constructed", "ready"}
    /\ appSettings.ncalls < MaxCalls
    /\ UNCHANGED <<coreVars, moreComponentVars, prefsDialog, exportDialog, mainClose,
                   channelTree, plotCanvas, tempFiles>>
    /\ LET r == LoadSettings(appSettings, open_ok)
       IN appSettings' =
            [r.obj EXCEPT !.pc = "ready", !.ncalls = @ + 1,
                          !.call = Call("load_settings", "", r.raised, FALSE,
                                        Memory(appSettings))]

save_settings(outcome) ==
    /\ appSettings.pc = "ready"
    /\ appSettings.ncalls < MaxCalls
    /\ UNCHANGED <<coreVars, moreComponentVars, prefsDialog, exportDialog, mainClose,
                   channelTree, plotCanvas, tempFiles>>
    /\ LET r == SaveSettings(appSettings, outcome)
       IN appSettings' =
            [r.obj EXCEPT !.ncalls = @ + 1, !.call = Call("save_settings", "", r.raised, FALSE,
                                        Memory(appSettings))]

\* add_recent_file without the removal of an existing occurrence
add_recent_file_mut(path, outcome) ==
    /\ appSettings.pc = "ready"
    /\ appSettings.ncalls < MaxCalls
    /\ UNCHANGED <<coreVars, moreComponentVars, prefsDialog, exportDialog, mainClose,
                   channelTree, plotCanvas, tempFiles>>
    /\ LET file_path == resolve(path)
           inserted == << file_path >> \o appSettings.ui_settings.recent_files
           limited == IF Len(inserted) > appSettings.ui_settings.max_recent_files
                        THEN Prefix(inserted, appSettings.ui_settings.max_recent_files)
                        ELSE inserted
           r == SaveSettings([appSettings EXCEPT !.ui_settings.recent_files = limited],
                             outcome)
       IN appSettings' =
            [r.obj EXCEPT !.ncalls = @ + 1, !.call = Call("add_recent_file", path, r.raised, FALSE,
                                        Memory(appSettings))]

\* add_recent_file (lines 149-164)
add_recent_file(path, outcome) ==
    /\ appSettings.pc = "ready"
    /\ appSettings.ncalls < MaxCalls
    /\ UNCHANGED <<coreVars, moreComponentVars, prefsDialog, exportDialog, mainClose,
                   channelTree, plotCanvas, tempFiles>>
    /\ LET file_path == resolve(path)
           removed == Remove(appSettings.ui_settings.recent_files, file_path)
           inserted == << file_path >> \o removed
           limited == IF Len(inserted) > appSettings.ui_settings.max_recent_files
                        THEN Prefix(inserted, appSettings.ui_settings.max_recent_files)
                        ELSE inserted
           r == SaveSettings([appSettings EXCEPT !.ui_settings.recent_files = limited],
                             outcome)
       IN appSettings' =
            [r.obj EXCEPT !.ncalls = @ + 1, !.call = Call("add_recent_file", path, r.raised, FALSE,
                                        Memory(appSettings))]

\* reset_to_defaults (lines 176-181)
reset_to_defaults(outcome) ==
    /\ appSettings.pc = "ready"
    /\ appSettings.ncalls < MaxCalls
    /\ UNCHANGED <<coreVars, moreComponentVars, prefsDialog, exportDialog, mainClose,
                   channelTree, plotCanvas, tempFiles>>
    /\ LET r == SaveSettings([appSettings EXCEPT
                                 !.plot_settings = PlotSettings,
                                 !.analysis_settings = AnalysisSettings,
                                 !.ui_settings = UISettings], outcome)
       IN appSettings' =
            [r.obj EXCEPT !.ncalls = @ + 1, !.call = Call("reset_to_defaults", "", r.raised, FALSE,
                                        Memory(appSettings))]

\* export_settings (lines 183-192): no try; the file written is not one of
\* the two stores
export_settings(write_ok) ==
    /\ appSettings.pc = "ready"
    /\ appSettings.ncalls < MaxCalls
    /\ UNCHANGED <<coreVars, moreComponentVars, prefsDialog, exportDialog, mainClose,
                   channelTree, plotCanvas, tempFiles>>
    /\ appSettings' =
          [appSettings EXCEPT !.ncalls = @ + 1, !.call = Call("export_settings", "", ~write_ok,
                                            ~write_ok, Memory(appSettings))]

\* import_settings (lines 194-208): no try; open and json.load raise for a
\* file that is absent or no JSON, _update_dataclass raises for a section
\* that is no mapping; save_settings follows when nothing raised
import_settings(file, outcome) ==
    /\ appSettings.pc = "ready"
    /\ appSettings.ncalls < MaxCalls
    /\ UNCHANGED <<coreVars, moreComponentVars, prefsDialog, exportDialog, mainClose,
                   channelTree, plotCanvas, tempFiles>>
    /\ IF file.kind # "json"
         THEN appSettings' =
                [appSettings EXCEPT !.ncalls = @ + 1, !.call = Call("import_settings", "", TRUE, TRUE,
                                                  Memory(appSettings))]
         ELSE LET updated == UpdateSections(appSettings, file)
                  r == SaveSettings(updated.obj, outcome)
              IN IF updated.raised
                   THEN appSettings' =
                          [updated.obj EXCEPT !.ncalls = @ + 1, !.call =
                              Call("import_settings", "", TRUE, TRUE,
                                   Memory(appSettings))]
                   ELSE appSettings' =
                          [r.obj EXCEPT !.ncalls = @ + 1, !.call =
                              Call("import_settings", "", r.raised, FALSE,
                                   Memory(appSettings))]

SettingsInit ==
    /\ CoreIdle
    /\ ComponentsIdleExcept({"appSettings"})
    /\ appSettings \in { SettingsStart(file) : file \in ExternalFiles }

SettingsNext ==
    \/ \E open_ok \in BOOLEAN : load_settings(open_ok)
    \/ \E outcome \in SaveOutcomes : save_settings(outcome)
    \/ \E path \in RawPaths, outcome \in SaveOutcomes : add_recent_file(path, outcome)
    \/ \E outcome \in SaveOutcomes : reset_to_defaults(outcome)
    \/ \E write_ok \in BOOLEAN : export_settings(write_ok)
    \/ \E file \in ExternalFiles, outcome \in SaveOutcomes :
          import_settings(file, outcome)

SpecSettings == SettingsInit /\ [][SettingsNext]_vars

(***************************************************************************)
(* PreferencesDialog (src/gui/dialogs/preferences.py) over an AppSettings  *)
(* object.  Each settings widget keeps a reference to the settings object  *)
(* it was constructed with; prefsDialog.aliased tells whether these are    *)
(* still the objects of AppSettings (reset_to_defaults replaces them), and *)
(* widget_objects holds them once they are not.  Of the controls, the spin *)
(* boxes for the line width and for the length of the recent-files list    *)
(* and the colour picker are kept.                                         *)
(***************************************************************************)
LineWidths == {1, 2}
RecentLimits == {5, 10}
Colors == {"white", "black"}

Clamp(v, lo, hi) == IF v < lo THEN lo ELSE IF v > hi THEN hi ELSE v

\* the settings files found at startup: none, or one written by the program
StartupFiles ==
    {AbsentFile,
     File("json", Section("dict", OtherPlotSettings),
          Section("dict", OtherAnalysisSettings), Section("dict", OtherUISettings))}

\* the persisted settings: config.json and QSettings
Stores(a) == [config_file |-> a.config_file, qsettings |-> a.qsettings]

PrefsClosed ==
    [pc |-> "closed",
     shown |-> 0,
     aliased |-> TRUE,
     widget_objects |-> [plot_settings |-> PlotSettings,
                         analysis_settings |-> AnalysisSettings,
                         ui_settings |-> UISettings],
     line_width_spin |-> 1,
     max_recent_spin |-> 10,
     applied |-> FALSE,
     opened |-> [memory |-> [plot_settings |-> PlotSettings,
                             analysis_settings |-> AnalysisSettings,
                             ui_settings |-> UISettings],
                 stores |-> [config_file |-> AbsentFile,
                             qsettings |-> [recent_files |-> << >>]]]]

\* the objects the widgets read and write
WidgetObjects(d, a) == IF d.aliased THEN Memory(a) ELSE d.widget_objects

\* the widgets' load_settings (lines 101-112, 381-387); the spin
\* box for max_recent_files has the range 5..50 (line 338)
WidgetsLoad(d, objects) ==
    [d EXCEPT !.line_width_spin = objects.plot_settings.line_width,
              !.max_recent_spin = Clamp(objects.ui_settings.max_recent_files, 5, 50)]

\* the widgets' save_settings (lines 114-121, 389-395)
WidgetsSave(d, objects) ==
    [objects EXCEPT !.plot_settings.line_width = d.line_width_spin,
                    !.ui_settings.max_recent_files = d.max_recent_spin]

\* a write to the widgets' objects reaches AppSettings while they are shared
WithObjects(a, d, objects) ==
    IF d.aliased
      THEN [a EXCEPT !.plot_settings = objects.plot_settings,
                     !.analysis_settings = objects.analysis_settings,
                     !.ui_settings = objects.ui_settings]
      ELSE a

\* MainWindow.show_preferences (main_window.py, lines 722-727): the dialog
\* is constructed over the application's settings and shown
show_preferences ==
    /\ prefsDialog.pc # "open"
    /\ prefsDialog.shown < MaxDialogs
    /\ UNCHANGED <<coreVars, moreComponentVars, exportDialog, mainClose, channelTree,
                   plotCanvas, tempFiles>>
    /\ UNCHANGED appSettings
    /\ prefsDialog' =
          [WidgetsLoad(PrefsClosed, Memory(appSettings)) EXCEPT
              !.pc = "open",
              !.shown = prefsDialog.shown + 1,
              !.opened = [memory |-> Memory(appSettings),
                          stores |-> Stores(appSettings)]]

\* the user edits a spin box
edit_values(line_width, limit) ==
    /\ prefsDialog.pc = "open"
    /\ UNCHANGED <<coreVars, moreComponentVars, exportDialog, mainClose, channelTree,
                   plotCanvas, tempFiles>>
    /\ UNCHANGED appSettings
    /\ prefsDialog' = [prefsDialog EXCEPT !.line_width_spin = line_width,
                                          !.max_recent_spin = limit]
    /\ prefsDialog' # prefsDialog

\* choose_background_color (lines 123-130) with a valid colour picked
choose_background_color(color) ==
    /\ prefsDialog.pc = "open"
    /\ UNCHANGED <<coreVars, moreComponentVars, exportDialog, mainClose, channelTree,
                   plotCanvas, tempFiles>>
    /\ LET objects == [WidgetObjects(prefsDialog, appSettings) EXCEPT
                          !.plot_settings.background_color = color]
       IN /\ appSettings' = WithObjects(appSettings, prefsDialog, objects)
          /\ prefsDialog' = [prefsDialog EXCEPT !.widget_objects = objects]

\* the body of apply_changes (lines 590-601)
ApplyChanges(d, a, outcome) ==
    LET objects == WidgetsSave(d, WidgetObjects(d, a))
    IN [settings |-> SaveSettings(WithObjects(a, d, objects), outcome).obj,
        dialog |-> [d EXCEPT !.widget_objects = objects, !.applied = TRUE]]

\* apply_changes, the Apply button
apply_changes(outcome) ==
    /\ prefsDialog.pc = "open"
    /\ UNCHANGED <<coreVars, moreComponentVars, exportDialog, mainClose, channelTree,
                   plotCanvas, tempFiles>>
    /\ LET r == ApplyChanges(prefsDialog, appSettings, outcome)
       IN /\ appSettings' = r.settings
          /\ prefsDialog' = r.dialog

\* accept_changes (lines 585-588), the OK button
accept_changes(outcome) ==
    /\ prefsDialog.pc = "open"
    /\ UNCHANGED <<coreVars, moreComponentVars, exportDialog, mainClose, channelTree,
                   plotCanvas, tempFiles>>
    /\ LET r == ApplyChanges(prefsDialog, appSettings, outcome)
       IN /\ appSettings' = r.settings
          /\ prefsDialog' = [r.dialog EXCEPT !.pc = "accepted"]

\* restore_defaults (lines 603-620) answered Yes: reset_to_defaults puts new
\* objects into AppSettings and saves; the widgets reload from the objects
\* they hold
restore_defaults(outcome) ==
    /\ prefsDialog.pc = "open"
    /\ UNCHANGED <<coreVars, moreComponentVars, exportDialog, mainClose, channelTree,
                   plotCanvas, tempFiles>>
    /\ LET objects == WidgetObjects(prefsDialog, appSettings)
       IN /\ appSettings' =
                SaveSettings([appSettings EXCEPT
                                 !.plot_settings = PlotSettings,
                                 !.analysis_settings = AnalysisSettings,
                                 !.ui_settings = UISettings], outcome).obj
          /\ prefsDialog' =
                WidgetsLoad([prefsDialog EXCEPT !.aliased = FALSE,
                                                !.widget_objects = objects],
                            objects)

\* the Cancel button: rejected is connected to QDialog.reject (line 572)
prefs_reject ==
    /\ prefsDialog.pc = "open"
    /\ UNCHANGED <<coreVars, moreComponentVars, exportDialog, mainClose, channelTree,
                   plotCanvas, tempFiles>>
    /\ UNCHANGED appSettings
    /\ prefsDialog' = [prefsDialog EXCEPT !.pc = "rejected"]

PrefsInit ==
    /\ CoreIdle
    /\ ComponentsIdleExcept({"appSettings", "prefsDialog"})
    /\ appSettings \in
          { [LoadSettings(SettingsStart(file), TRUE).obj EXCEPT !.pc = "ready"] :
                file \in StartupFiles }
    /\ prefsDialog = PrefsClosed

PrefsNext ==
    \/ show_preferences
    \/ \E line_width \in LineWidths, limit \in RecentLimits :
          edit_values(line_width, limit)
    \/ \E color \in Colors : choose_background_color(color)
    \/ \E outcome \in SaveOutcomes : apply_changes(outcome)
    \/ \E outcome \in SaveOutcomes : accept_changes(outcome)
    \/ \E outcome \in SaveOutcomes : restore_defaults(outcome)
    \/ prefs_reject

SpecPrefs == PrefsInit /\ [][PrefsNext]_vars

(***************************************************************************)
(* ExportDialog and ExportWorker (src/gui/dialogs/export_dialog.py).       *)
(* exportDialog holds the dialog (open or closed, the export button, the   *)
(* reference export_worker), the worker thread, and what is recorded about *)
(* the run: whether the output file was written, whether export_completed  *)
(* was emitted, whether cancel() came before the worker began to write,    *)
(* and how the dialog was closed.  A stage boundary is a progress_updated  *)
(* emission; a check of is_cancelled that directly follows it belongs to   *)
(* the same step, as does the call that starts the stage after it.         *)
(***************************************************************************)
ExportTypes == {"data", "plot", "report"}

NoExportWorker ==
    [pc |-> "none", type |-> "data", is_cancelled |-> FALSE,
     cancelled_before_write |-> FALSE, file_written |-> FALSE,
     completed |-> FALSE, finished_pending |-> FALSE]

ExportStart ==
    [pc |-> "open",
     export_btn |-> TRUE,
     export_worker |-> FALSE,          \* self.export_worker is not None
     worker |-> NoExportWorker,
     nexports |-> 0,
     asked |-> FALSE,                  \* the close confirmation was shown
     confirmed |-> FALSE,              \* ... and answered Yes
     closed_while_running |-> FALSE]

\* QThread.isRunning()
exportIsRunning(d) == d.worker.pc \notin {"none", "returned"}

\* the dialog is left (accept, reject or an accepted close event)
CloseExportDialog(d) ==
    [d EXCEPT !.pc = "closed", !.closed_while_running = exportIsRunning(d)]

\* start_export (lines 768-815) with a file path and a valid tab
start_export(type) ==
    /\ exportDialog.pc = "open"
    /\ exportDialog.export_btn
    /\ exportDialog.nexports < MaxExports
    /\ UNCHANGED <<coreVars, moreComponentVars, appSettings, prefsDialog, mainClose,
                   channelTree, plotCanvas, tempFiles>>
    /\ exportDialog' =
          [exportDialog EXCEPT
              !.export_worker = TRUE,
              !.worker = [NoExportWorker EXCEPT !.pc = "started", !.type = type],
              !.export_btn = FALSE,
              !.nexports = @ + 1]

\* ExportWorker.cancel (lines 215-217), recording whether it came before the
\* worker began to write
ExportCancel(d) ==
    [d EXCEPT !.worker.is_cancelled = TRUE,
              !.worker.cancelled_before_write =
                  @ \/ d.worker.pc \in {"started", "preparing", "generating"}]

\* cancel_export (lines 817-823), the Cancel button
cancel_export ==
    /\ exportDialog.pc = "open"
    /\ UNCHANGED <<coreVars, moreComponentVars, appSettings, prefsDialog, mainClose,
                   channelTree, plotCanvas, tempFiles>>
    /\ exportDialog' =
          IF exportDialog.export_worker /\ exportIsRunning(exportDialog)
            THEN ExportCancel(exportDialog)
            ELSE CloseExportDialog(exportDialog)

\* the Close button: clicked is connected to QDialog.accept (lines 699-701),
\* which ends the dialog without a close event
close_btn_clicked ==
    /\ exportDialog.pc = "open"
    /\ UNCHANGED <<coreVars, moreComponentVars, appSettings, prefsDialog, mainClose,
                   channelTree, plotCanvas, tempFiles>>
    /\ exportDialog' = CloseExportDialog(exportDialog)

\* closeEvent (lines 866-882), the window's close box, up to wait(3000).
\* reply is the answer to the confirmation.
export_closeEvent(reply) ==
    /\ exportDialog.pc = "open"
    /\ UNCHANGED <<coreVars, moreComponentVars, appSettings, prefsDialog, mainClose,
                   channelTree, plotCanvas, tempFiles>>
    /\ IF exportDialog.export_worker /\ exportIsRunning(exportDialog)
         THEN IF reply = "No"
                THEN exportDialog' = [exportDialog EXCEPT !.asked = TRUE]
                ELSE exportDialog' =
                          [ExportCancel(exportDialog) EXCEPT
                              !.pc = "waiting",
                              !.asked = TRUE, !.confirmed = TRUE]
         ELSE exportDialog' = CloseExportDialog(exportDialog)

\* wait(3000) returns, because the worker ended or because the 3 seconds
\* passed, and the event is accepted (lines 878-882)
export_closeEvent_accept ==
    /\ exportDialog.pc = "waiting"
    /\ UNCHANGED <<coreVars, moreComponentVars, appSettings, prefsDialog, mainClose,
                   channelTree, plotCanvas, tempFiles>>
    /\ exportDialog' = CloseExportDialog(exportDialog)

\* ExportWorker.run up to the first check: the first progress_updated and
\* the check after it (data lines 68-71, plot 115-118, report 132-135); for
\* a plot the save follows at once
export_run_first ==
    /\ exportDialog.worker.pc = "started"
    /\ UNCHANGED <<coreVars, moreComponentVars, appSettings, prefsDialog, mainClose,
                   channelTree, plotCanvas, tempFiles>>
    /\ exportDialog' =
          [exportDialog EXCEPT
              !.worker.pc =
                 IF exportDialog.worker.is_cancelled THEN "returned"
                 ELSE CASE exportDialog.worker.type = "data" -> "preparing"
                        [] exportDialog.worker.type = "plot" -> "writing"
                        [] OTHER -> "generating",
              !.worker.finished_pending = exportDialog.worker.is_cancelled]

\* the second stage boundary: data emits 50 and checks (lines 93-96); report
\* emits 70 and opens the file without a check (lines 140-143)
export_run_second ==
    /\ exportDialog.worker.pc \in {"preparing", "generating"}
    /\ UNCHANGED <<coreVars, moreComponentVars, appSettings, prefsDialog, mainClose,
                   channelTree, plotCanvas, tempFiles>>
    /\ exportDialog' =
          IF exportDialog.worker.type = "data" /\ exportDialog.worker.is_cancelled
            THEN [exportDialog EXCEPT !.worker.pc = "returned",
                                      !.worker.finished_pending = TRUE]
            ELSE [exportDialog EXCEPT !.worker.pc = "writing"]

\* the output file is written and export_completed emitted, or writing
\* raises and run() emits error_occurred (lines 57-59)
export_run_write(raises) ==
    /\ exportDialog.worker.pc = "writing"
    /\ UNCHANGED <<coreVars, moreComponentVars, appSettings, prefsDialog, mainClose,
                   channelTree, plotCanvas, tempFiles>>
    /\ exportDialog' =
          [exportDialog EXCEPT
              !.worker.pc = "returned",
              !.worker.file_written = ~raises,
              !.worker.completed = ~raises,
              !.worker.finished_pending = TRUE]

\* export_finished (lines 854-864), on the worker's finished signal
export_finished ==
    /\ exportDialog.pc # "waiting"       \* the GUI thread is not blocked
    /\ exportDialog.worker.pc = "returned"
    /\ exportDialog.worker.finished_pending
    /\ UNCHANGED <<coreVars, moreComponentVars, appSettings, prefsDialog, mainClose,
                   channelTree, plotCanvas, tempFiles>>
    /\ exportDialog' =
          [exportDialog EXCEPT !.export_btn = TRUE,
                               !.export_worker = FALSE,
                               !.worker.finished_pending = FALSE]

ExportInit ==
    /\ CoreIdle
    /\ ComponentsIdleExcept({"exportDialog"})
    /\ exportDialog = ExportStart

ExportNext ==
    \/ \E type \in ExportTypes : start_export(type)
    \/ cancel_export
    \/ close_btn_clicked
    \/ \E reply \in {"Yes", "No"} : export_closeEvent(reply)
    \/ export_closeEvent_accept
    \/ export_run_first
    \/ export_run_second
    \/ \E raises \in BOOLEAN : export_run_write(raises)
    \/ export_finished

SpecExport == ExportInit /\ [][ExportNext]_vars

(***************************************************************************)
(* MainWindow.closeEvent (src/gui/main_window.py, lines 792-818).          *)
(* mainClose holds what the handler reads and changes: the analysis        *)
(* worker, the reader's current record, the splitter, the persisted        *)
(* splitter sizes, and shutdown_steps, the calls of the handler in the     *)
(* order in which it made them.                                            *)
(***************************************************************************)
SplitterSizes == {<<350, 1050>>, <<300, 900>>, <<500, 900>>}

MainStart ==
    [pc |-> "open",
     analysis_worker |-> "none",       \* none, running, cancelled, finished
     current_record |-> FALSE,         \* comtrade_reader.current_record
     main_splitter |-> <<350, 1050>>,
     saved_splitter_sizes |-> <<350, 1050>>,
     shutdown_steps |-> << >>,
     attempts |-> 0]

mainWorkerIsRunning(m) == m.analysis_worker \in {"running", "cancelled"}

\* the user drags the splitter
move_splitter(sizes) ==
    /\ mainClose.pc = "open"
    /\ sizes # mainClose.main_splitter
    /\ UNCHANGED <<coreVars, moreComponentVars, appSettings, prefsDialog, exportDialog,
                   channelTree, plotCanvas, tempFiles>>
    /\ mainClose' = [mainClose EXCEPT !.main_splitter = sizes]

\* open_file (lines 481-550): the reader holds a record afterwards
main_open_file ==
    /\ mainClose.pc = "open"
    /\ ~mainClose.current_record
    /\ UNCHANGED <<coreVars, moreComponentVars, appSettings, prefsDialog, exportDialog,
                   channelTree, plotCanvas, tempFiles>>
    /\ mainClose' = [mainClose EXCEPT !.current_record = TRUE]

\* start_analysis (lines 552-578) with a record loaded
main_start_analysis ==
    /\ mainClose.pc = "open"
    /\ mainClose.current_record
    /\ ~mainWorkerIsRunning(mainClose)
    /\ UNCHANGED <<coreVars, moreComponentVars, appSettings, prefsDialog, exportDialog,
                   channelTree, plotCanvas, tempFiles>>
    /\ mainClose' = [mainClose EXCEPT !.analysis_worker = "running"]

\* stop_analysis (lines 580-584) while the worker runs
main_stop_analysis ==
    /\ mainClose.pc = "open"
    /\ mainClose.analysis_worker = "running"
    /\ UNCHANGED <<coreVars, moreComponentVars, appSettings, prefsDialog, exportDialog,
                   channelTree, plotCanvas, tempFiles>>
    /\ mainClose' = [mainClose EXCEPT !.analysis_worker = "cancelled"]

\* the worker thread's run() returns
main_worker_ends ==
    /\ mainWorkerIsRunning(mainClose)
    /\ UNCHANGED <<coreVars, moreComponentVars, appSettings, prefsDialog, exportDialog,
                   channelTree, plotCanvas, tempFiles>>
    /\ mainClose' = [mainClose EXCEPT !.analysis_worker = "finished"]

\* save_window_state (lines 446-454), then comtrade_reader.close() and
\* event.accept() (lines 810-818).  saved tells whether save_settings wrote
\* config.json; its failures are caught and logged.
CloseTail(m, saved) ==
    [m EXCEPT !.saved_splitter_sizes = IF saved THEN m.main_splitter ELSE @,
              !.current_record = FALSE,
              !.shutdown_steps = @ \o
                  <<"save_window_state", "comtrade_reader.close", "accept">>,
              !.pc = "closed"]

\* closeEvent (lines 792-818) up to wait(3000), or to its end when no
\* analysis is running
main_closeEvent(reply, saved) ==
    /\ mainClose.pc = "open"
    /\ mainClose.attempts < MaxCloseAttempts
    /\ UNCHANGED <<coreVars, moreComponentVars, appSettings, prefsDialog, exportDialog,
                   channelTree, plotCanvas, tempFiles>>
    /\ LET m == [mainClose EXCEPT !.attempts = @ + 1, !.shutdown_steps = << >>]
       IN IF mainWorkerIsRunning(mainClose)
            THEN IF reply = "No"
                   THEN mainClose' = [m EXCEPT !.shutdown_steps = <<"ignore">>]
                   ELSE mainClose' =
                           [m EXCEPT !.analysis_worker = "cancelled",
                                     !.shutdown_steps = <<"cancel", "wait">>,
                                     !.pc = "waiting"]
            ELSE mainClose' = CloseTail(m, saved)

\* wait(3000) returns, the worker ended or not, and the handler goes on
main_closeEvent_finish(saved) ==
    /\ mainClose.pc = "waiting"
    /\ UNCHANGED <<coreVars, moreComponentVars, appSettings, prefsDialog, exportDialog,
                   channelTree, plotCanvas, tempFiles>>
    /\ mainClose' = CloseTail(mainClose, saved)

CloseInit ==
    /\ CoreIdle
    /\ ComponentsIdleExcept({"mainClose"})
    /\ mainClose = MainStart

CloseNext ==
    \/ \E sizes \in SplitterSizes : move_splitter(sizes)
    \/ main_open_file
    \/ main_start_analysis
    \/ main_stop_analysis
    \/ main_worker_ends
    \/ \E reply \in {"Yes", "No"}, saved \in BOOLEAN :
          main_closeEvent(reply, saved)
    \/ \E saved \in BOOLEAN : main_closeEvent_finish(saved)

SpecClose == CloseInit /\ [][CloseNext]_vars

(***************************************************************************)
(* ChannelTreeWidget (src/gui/widgets/channel_tree.py): check states and   *)
(* the single-shot selection_timer.  Time is in ticks of 50 ms.  The       *)
(* timer's timeout is delivered by the event loop at or after the          *)
(* deadline; the event loop may handle an input event that was queued      *)
(* before a timeout that is due.  A burst is a maximal run of changes in   *)
(* which consecutive changes are less than the interval apart.             *)
(***************************************************************************)
SelectionInterval == 2      \* setInterval(100)

TreeChannels == {<<"analog", 0>>, <<"analog", 1>>, <<"digital", 0>>}

\* get_selected_channels (lines 523-548)
get_selected_channels(checked) ==
    [analog |-> { c[2] : c \in { x \in checked : x[1] = "analog" } },
     digital |-> { c[2] : c \in { x \in checked : x[1] = "digital" } }]

TreeStart ==
    [pc |-> "ready",
     now |-> 0,
     checked |-> {},
     timer |-> [active |-> FALSE, deadline |-> 0],
     nchanges |-> 0,                 \* handlers that changed a check state
     last_change |-> -1,             \* time of the last change, -1: none
     bursts |-> 0,
     published |-> << >>]            \* channels_selected emissions: [time, map]

\* QTimer.start() on the timer with the changed restart dropped: a running
\* timer keeps its deadline
selection_timer_start_mut(t, now) ==
    IF t.active THEN t ELSE [active |-> TRUE, deadline |-> now + SelectionInterval]

\* QTimer.start() (line 513): starts the timer, or restarts it when it runs
selection_timer_start(t, now) ==
    [active |-> TRUE, deadline |-> now + SelectionInterval]

\* the tree after a handler set the check states to checked: itemChanged is
\* emitted for every item whose state changed, and on_item_changed (lines
\* 509-515) starts the timer
ItemsChanged(tree, checked) ==
    [tree EXCEPT
        !.checked = checked,
        !.timer = selection_timer_start(tree.timer, tree.now),
        !.nchanges = @ + 1,
        !.last_change = tree.now,
        !.bursts = IF tree.last_change = -1
                      \/ tree.now - tree.last_change >= SelectionInterval
                     THEN @ + 1 ELSE @]

\* 50 ms pass
tree_tick ==
    /\ channelTree.now < MaxTreeTime
    /\ UNCHANGED <<coreVars, moreComponentVars, appSettings, prefsDialog, exportDialog,
                   mainClose, plotCanvas, tempFiles>>
    /\ channelTree' = [channelTree EXCEPT !.now = @ + 1]

\* the user clicks the check box of one channel (itemChanged, lines 509-515)
on_item_changed(channel) ==
    /\ channelTree.nchanges < MaxChanges
    /\ UNCHANGED <<coreVars, moreComponentVars, appSettings, prefsDialog, exportDialog,
                   mainClose, plotCanvas, tempFiles>>
    /\ channelTree' =
          ItemsChanged(channelTree,
                       IF channel \in channelTree.checked
                         THEN channelTree.checked \ {channel}
                         ELSE channelTree.checked \cup {channel})

\* select_all_channels (lines 555-565) with no item hidden; setCheckState
\* emits itemChanged only for an item whose state changes
select_all_channels(checked) ==
    /\ channelTree.nchanges < MaxChanges
    /\ channelTree.checked # (IF checked THEN TreeChannels ELSE {})
    /\ UNCHANGED <<coreVars, moreComponentVars, appSettings, prefsDialog, exportDialog,
                   mainClose, plotCanvas, tempFiles>>
    /\ channelTree' =
          ItemsChanged(channelTree, IF checked THEN TreeChannels ELSE {})

\* invert_selection (lines 567-579) with no item hidden
invert_selection ==
    /\ channelTree.nchanges < MaxChanges
    /\ UNCHANGED <<coreVars, moreComponentVars, appSettings, prefsDialog, exportDialog,
                   mainClose, plotCanvas, tempFiles>>
    /\ channelTree' =
          ItemsChanged(channelTree, TreeChannels \ channelTree.checked)

\* emit_selection_changed (lines 517-521), on the timer's timeout
emit_selection_changed ==
    /\ channelTree.timer.active
    /\ channelTree.now >= channelTree.timer.deadline
    /\ UNCHANGED <<coreVars, moreComponentVars, appSettings, prefsDialog, exportDialog,
                   mainClose, plotCanvas, tempFiles>>
    /\ channelTree' =
          [channelTree EXCEPT
              !.timer.active = FALSE,
              !.published = Append(@,
                  [time |-> channelTree.now,
                   map |-> get_selected_channels(channelTree.checked)])]

TreeInit ==
    /\ CoreIdle
    /\ ComponentsIdleExcept({"channelTree"})
    /\ channelTree = TreeStart

TreeNext ==
    \/ tree_tick
    \/ \E channel \in TreeChannels : on_item_changed(channel)
    \/ \E checked \in BOOLEAN : select_all_channels(checked)
    \/ invert_selection
    \/ emit_selection_changed

SpecTree == TreeInit /\ [][TreeNext]_vars

(***************************************************************************)
(* PlotCanvas and PlotWidget (src/gui/widgets/plot_widget.py): the axes    *)
(* with their waveform lines and their patches, and fault_events.  Every   *)
(* patch on the axes is a highlight rectangle; it is written as the event  *)
(* it was drawn for.                                                       *)
(***************************************************************************)
PlotEvents == {1, 2}

\* the lists of fault events handed to the canvas
EventLists == {<< >>, <<1>>, <<2>>, <<1, 2>>}

CanvasStart ==
    [pc |-> "ready",
     axes |-> << >>,               \* each: [line |-> channel, patches |-> Seq]
     fault_events |-> << >>,
     call |-> [op |-> "__init__", events |-> << >>, axes_before |-> << >>]]

\* plot_channels (lines 130-175) with n subplots; clear_plots (lines
\* 124-128) drops the old axes with everything on them
plot_channels(n) ==
    /\ UNCHANGED <<coreVars, moreComponentVars, appSettings, prefsDialog, exportDialog,
                   mainClose, channelTree, tempFiles>>
    /\ plotCanvas' =
          [plotCanvas EXCEPT
              !.axes = [i \in 1..n |-> [line |-> i, patches |-> << >>]],
              !.call = [op |-> "plot_channels", events |-> << >>,
                        axes_before |-> plotCanvas.axes]]
    /\ plotCanvas'.axes # plotCanvas.axes

\* "for patch in ax.patches: patch.remove()" (lines 287-289).  Iterating a
\* copy of the patches removes all of them; iterating the list that remove()
\* shrinks skips the patch that follows each removed one.  Which of the two
\* happens depends on the Matplotlib version.
RemoveHighlights(patches, iteration) ==
    IF iteration = "copy"
      THEN << >>
      ELSE [i \in 1..(Len(patches) \div 2) |-> patches[2 * i]]

Iterations == {"copy", "live"}

\* the body of highlight_fault_events (lines 278-307)
HighlightFaultEvents(canvas, events, iteration) ==
    LET c == [canvas EXCEPT !.fault_events = events]
    IN IF Len(canvas.axes) = 0 \/ Len(events) = 0
         THEN c
         ELSE [c EXCEPT !.axes =
                  [i \in 1..Len(canvas.axes) |->
                      [canvas.axes[i] EXCEPT !.patches =
                          RemoveHighlights(@, iteration) \o events]]]

\* highlight_fault_events (lines 278-307)
highlight_fault_events(events, iteration) ==
    /\ UNCHANGED <<coreVars, moreComponentVars, appSettings, prefsDialog, exportDialog,
                   mainClose, channelTree, tempFiles>>
    /\ plotCanvas' =
          [HighlightFaultEvents(plotCanvas, events, iteration) EXCEPT
              !.call = [op |-> "highlight_fault_events",
                        events |-> events,
                        axes_before |-> plotCanvas.axes]]

\* PlotWidget.on_highlight_faults_requested (lines 600-606)
on_highlight_faults_requested(enabled, iteration) ==
    /\ UNCHANGED <<coreVars, moreComponentVars, appSettings, prefsDialog, exportDialog,
                   mainClose, channelTree, tempFiles>>
    /\ LET events == IF enabled /\ Len(plotCanvas.fault_events) > 0
                       THEN plotCanvas.fault_events ELSE << >>
       IN plotCanvas' =
            [HighlightFaultEvents(plotCanvas, events, iteration) EXCEPT
                !.call = [op |-> "on_highlight_faults_requested",
                          events |-> events,
                          axes_before |-> plotCanvas.axes]]

PlotInit ==
    /\ CoreIdle
    /\ ComponentsIdleExcept({"plotCanvas"})
    /\ plotCanvas = CanvasStart

PlotNext ==
    \/ \E n \in 0..MaxAxes : plot_channels(n)
    \/ \E events \in EventLists, iteration \in Iterations :
          highlight_fault_events(events, iteration)
    \/ \E enabled \in BOOLEAN, iteration \in Iterations :
          on_highlight_faults_requested(enabled, iteration)

SpecPlot == PlotInit /\ [][PlotNext]_vars

(***************************************************************************)
(* ComtradeReader.load_file with the comtrade library available            *)
(* (src/core/comtrade_reader.py, lines 105-185): the temporary UTF-8 copy  *)
(* of the configuration file.  tempFiles holds the temporary files on      *)
(* disk, by the number of the call that created them, and what the last    *)
(* call did.                                                               *)
(***************************************************************************)
Encodings == {"utf-8", "gbk"}

\* _create_temp_utf8_file: mkstemp fails; the source cannot be read in the
\* detected encoding; the copy cannot be written; the copy is made
CreateOutcomes == {"mkstemp_fails", "read_fails", "write_fails", "ok"}

\* comtrade.load and _create_record on the file handed to the library
LibraryOutcomes == {"load_raises", "create_record_raises", "ok"}

TempStart ==
    [pc |-> "ready",
     attempts |-> 0,
     disk |-> {},
     current_record |-> "none",      \* none, library, manual
     call |-> [op |-> "__init__", encoding |-> "utf-8",
               temp_created |-> FALSE, result |-> FALSE]]

\* _create_temp_utf8_file (lines 163-185): the path, or None; mkstemp has
\* created the file in every outcome but its own failure
create_temp_utf8_file(t, outcome) ==
    [disk |-> IF outcome = "mkstemp_fails" THEN t.disk
              ELSE t.disk \cup {t.attempts + 1},
     temp_path |-> IF outcome = "ok" THEN t.attempts + 1 ELSE None]

\* _try_comtrade_library (lines 128-161): the disk afterwards and the result
try_comtrade_library(t, encoding, create, library) ==
    IF encoding \notin {"utf-8", "ascii", "latin-1"}
      THEN LET temp == create_temp_utf8_file(t, create)
           IN IF temp.temp_path # None
                THEN \* try: load, create the record; finally: os.remove
                     [disk |-> temp.disk \ {temp.temp_path},
                      ok |-> library = "ok"]
                ELSE [disk |-> temp.disk, ok |-> FALSE]
      ELSE [disk |-> t.disk, ok |-> library = "ok"]

\* load_file (lines 105-126) on an existing pair of files
reader_load_file(encoding, create, library, manual_ok) ==
    /\ tempFiles.attempts < MaxAttempts
    /\ UNCHANGED <<coreVars, moreComponentVars, appSettings, prefsDialog, exportDialog,
                   mainClose, channelTree, plotCanvas>>
    /\ LET r == try_comtrade_library(tempFiles, encoding, create, library)
       IN tempFiles' =
            [tempFiles EXCEPT
                !.attempts = @ + 1,
                !.disk = r.disk,
                !.current_record =
                    IF r.ok THEN "library"
                    ELSE IF manual_ok THEN "manual" ELSE @,
                !.call = [op |-> "load_file",
                          encoding |-> encoding,
                          temp_created |-> (tempFiles.attempts + 1) \in
                              create_temp_utf8_file(tempFiles, create).disk
                              /\ encoding \notin {"utf-8", "ascii", "latin-1"},
                          result |-> r.ok \/ manual_ok]]

\* close (lines 1252-1256)
reader_close ==
    /\ tempFiles.current_record # "none"
    /\ UNCHANGED <<coreVars, moreComponentVars, appSettings, prefsDialog, exportDialog,
                   mainClose, channelTree, plotCanvas>>
    /\ tempFiles' = [tempFiles EXCEPT
                        !.current_record = "none",
                        !.call.op = "close"]

TempInit ==
    /\ CoreIdle
    /\ ComponentsIdleExcept({"tempFiles"})
    /\ tempFiles = TempStart

TempNext ==
    \/ \E encoding \in Encodings, create \in CreateOutcomes,
          library \in LibraryOutcomes, manual_ok \in BOOLEAN :
             reader_load_file(encoding, create, library, manual_ok)
    \/ reader_close

SpecTemp == TempInit /\ [][TempNext]_vars

(***************************************************************************)
(* ComtradeReader._read_dat_file_improved (src/core/comtrade_reader.py,    *)
(* lines 238-281) and its strategies.  A DAT file is its format, its size  *)
(* in bytes and, for a text file, its rows.  A strategy yields the shape   *)
(* of the matrix it returns, or NoMatrix.                                  *)
(***************************************************************************)
NoMatrix == [strategy |-> "none", rows |-> 0, cols |-> 0]

Matrix(strategy, rows, cols) == [strategy |-> strategy, rows |-> rows, cols |-> cols]

\* the first element of seq that satisfies Test, by its position or 0
FirstIndex(seq, Test(_)) ==
    IF \E i \in 1..Len(seq) : Test(seq[i])
      THEN CHOOSE i \in 1..Len(seq) :
              Test(seq[i]) /\ \A j \in 1..(i - 1) : ~Test(seq[j])
      ELSE 0

\* _analyze_binary_structure (lines 372-416).  The columns searched are
\* range(total_channels - 5, total_channels + 10); a column count of 0
\* raises in the modulo and ends the search for that data type.
analyze_binary_structure(file, total_channels) ==
    IF file.format = "ascii"
      THEN NoMatrix                \* more than 70 % of the header is text
      ELSE LET itemsizes == <<2, 2, 4, 4, 4, 4, 8, 8>>
               Fits(total, cols) ==
                   /\ cols > 0
                   /\ total % cols = 0
                   /\ total \div cols > 10
                   /\ total \div cols < 100000
               \* the columns tried before the search ends
               Tried == IF total_channels - 5 <= 0 /\ 0 < total_channels + 10
                          THEN (total_channels - 5)..(-1)
                          ELSE (total_channels - 5)..(total_channels + 9)
               Found(itemsize) ==
                   \E cols \in Tried : Fits(file.size \div itemsize, cols)
               k == FirstIndex(itemsizes, Found)
           IN IF k = 0 THEN NoMatrix
              ELSE LET total == file.size \div itemsizes[k]
                       cols == CHOOSE c \in Tried :
                                  /\ Fits(total, c)
                                  /\ \A d \in Tried : Fits(total, d) => c <= d
                   IN Matrix("binary", total \div cols, cols)

\* _try_binary_format (lines 328-370): np.fromfile reads whatever the bytes
\* are, as int16, int32, float32 and float64 in turn
try_binary_format(file, total_channels) ==
    LET itemsizes == <<2, 4, 4, 8>>
        columns == <<total_channels + 2, total_channels + 1,
                     total_channels, total_channels + 4>>
        Fits(len, cols) == len % cols = 0 /\ len \div cols > 10
        Found(itemsize) ==
            \E i \in 1..4 : Fits(file.size \div itemsize, columns[i])
        k == FirstIndex(itemsizes, Found)
    IN IF k = 0 THEN analyze_binary_structure(file, total_channels)
       ELSE LET len == file.size \div itemsizes[k]
                FitsLen(cols) == Fits(len, cols)
                c == FirstIndex(columns, FitsLen)
            IN Matrix("binary", len \div columns[c], columns[c])

\* _try_ascii_format (lines 418-491) on a comma-separated text file: the
\* rows and fields of the file; on other bytes text_parse tells whether
\* the text readers made anything of them
try_ascii_format(file, total_channels, text_parse) ==
    IF file.format = "ascii"
      THEN IF file.rows > 0 /\ file.cols >= total_channels
             THEN Matrix("ascii", file.rows, file.cols)
             ELSE NoMatrix
      ELSE IF text_parse = "ascii" THEN Matrix("ascii", 11, total_channels)
           ELSE NoMatrix

\* _try_other_text_formats (lines 666-706): at least 10 data lines
try_other_text_formats(file, total_channels, text_parse) ==
    IF text_parse = "other" /\ (file.format = "ascii" => file.rows >= 10)
      THEN Matrix("other_text", 11, total_channels)
      ELSE NoMatrix

\* _generate_mock_data (lines 283-326)
generate_mock_data(total_channels) == Matrix("mock", 1000, total_channels + 2)

\* the body of _read_dat_file_improved (lines 238-281); readable is whether
\* os.path.getsize and the reads succeed
read_dat_file_improved(file, total_channels, text_parse, readable) ==
    IF ~readable THEN generate_mock_data(total_channels)
    ELSE LET binary == try_binary_format(file, total_channels)
             ascii == try_ascii_format(file, total_channels, text_parse)
             other == try_other_text_formats(file, total_channels, text_parse)
         IN IF binary # NoMatrix THEN binary
            ELSE IF ascii # NoMatrix THEN ascii
            ELSE IF other # NoMatrix THEN other
            ELSE generate_mock_data(total_channels)

TotalChannels == {1, 2, 7}

\* well-formed comma-separated files: one row per sample, number, time stamp
\* and one field per channel, row_bytes bytes to the row
AsciiFiles(total_channels) ==
    { [format |-> "ascii", rows |-> rows, cols |-> total_channels + 2,
       size |-> rows * row_bytes] :
          rows \in {5, 11, 12, 20}, row_bytes \in {6, 7, 9, 11} }

\* binary files of 16-bit samples, complete or cut short
BinaryFiles(total_channels) ==
    { [format |-> "binary", rows |-> 0, cols |-> 0,
       size |-> 2 * rows * (total_channels + 2) - cut] :
          rows \in {5, 11, 20}, cut \in {0, 1} }

TextParses == {"none", "ascii", "other"}

\* _read_dat_file_improved is called on a DAT file
read_dat_file(file, total_channels, text_parse, readable) ==
    /\ datFile.pc \in {"ready", "read"}
    /\ UNCHANGED <<guiVars, mergeVars, detectVars, preVars>>
    /\ UNCHANGED <<appSettings, prefsDialog, exportDialog, mainClose,
                   channelTree, plotCanvas, tempFiles>>
    /\ UNCHANGED <<funcCall, channelIndex, toolbar>>
    /\ datFile' =
          [pc |-> "read", file |-> file, total_channels |-> total_channels,
           text_parse |-> text_parse, readable |-> readable,
           data |-> read_dat_file_improved(file, total_channels,
                                           text_parse, readable)]

DatInit ==
    /\ CoreIdle
    /\ ComponentsIdleExcept({"datFile"})
    /\ datFile = [pc |-> "ready"]

DatNext ==
    \E total_channels \in TotalChannels :
       \E file \in AsciiFiles(total_channels) \cup BinaryFiles(total_channels),
          text_parse \in TextParses, readable \in BOOLEAN :
             read_dat_file(file, total_channels, text_parse, readable)

SpecDat == DatInit /\ [][DatNext]_vars

(***************************************************************************)
(* Part 12.  Channel names: the finders of the fault detector             *)
(* (src/analysis/fault_detector.py:412-437) and the channel tree's        *)
(* classification (src/gui/widgets/channel_tree.py:405-427) applied to     *)
(* records of one or two analog channels with short names.                 *)
(***************************************************************************)
MaxNameLen == 2

\* VOLTAGE_KEYWORDS and CURRENT_KEYWORDS as the tree imports them: the
\* second assignment of each name in src/config/constants.py (116-126)
VOLTAGE_KEYWORDS == <<
    <<"V">>, <<"V", "O", "L", "T">>, <<"V", "O", "L", "T", "A", "G", "E">>,
    <<"U">>, <<"dian4", "ya1">>, <<"K", "V">>, <<"M", "V">>, <<"V", "A">>,
    <<"V", "B">>, <<"V", "C">>, <<"V", "N">>, <<"U", "A", "B">>,
    <<"U", "B", "C">>, <<"U", "C", "A">>, <<"U", "A">>, <<"U", "B">>,
    <<"U", "C">>, <<"U", "N">>, <<"V", "A", "N">>, <<"V", "B", "N">>,
    <<"V", "C", "N">> >>
CURRENT_KEYWORDS == <<
    <<"I">>, <<"C", "U", "R", "R">>, <<"C", "U", "R", "R", "E", "N", "T">>,
    <<"A">>, <<"dian4", "liu2">>, <<"I", "A">>, <<"I", "B">>, <<"I", "C">>,
    <<"I", "N">>, <<"A", "M", "P">>, <<"A", "M", "P", "E", "R", "E">>,
    <<"M", "A">>, <<"K", "A">> >>

\* the characters channel names are made of
NameChars == {"U", "I", "A", "a", "C"}

RECURSIVE NamesOfLength(_)
NamesOfLength(n) ==
    IF n = 0 THEN { << >> }
    ELSE { Append(name, c) : name \in NamesOfLength(n - 1), c \in NameChars }

\* the names up to MaxNameLen characters, and four longer names
NamesUnderStudy ==
    UNION { NamesOfLength(n) : n \in 1..MaxNameLen }
      \cup { <<"V", "A">>, <<"I", "B">>, <<"T", "1">>,
             <<"P", "h", "a", "s", "e", "C", "_", "I">> }

\* ChannelTreeWidget._identify_channel_type: the first list with a keyword
\* in the upper-cased name decides, and the voltage list is looked at first
identify_channel_type(channel_name) ==
    LET name_upper == Upper(channel_name)
    IN IF \E k \in 1..Len(VOLTAGE_KEYWORDS) : Contains(name_upper, VOLTAGE_KEYWORDS[k])
         THEN "voltage"
         ELSE IF \E k \in 1..Len(CURRENT_KEYWORDS) :
                     Contains(name_upper, CURRENT_KEYWORDS[k])
                THEN "current"
                ELSE "other"

\* FaultDetector._find_voltage_channels and _find_current_channels for the
\* analog channels of one record; the current-based detectors process what
\* _find_current_channels returns (fault_detector.py:147, 328, 599)
find_channels(analog_channels) ==
    /\ funcCall = [pc |-> "ready"]
    /\ funcCall' = [pc |-> "found", analog_channels |-> analog_channels,
                    voltage_channels |-> SelectChannels(analog_channels, VoltageKeywords),
                    current_channels |-> SelectChannels(analog_channels, CurrentKeywords)]
    /\ UNCHANGED <<coreVars, datFile, channelIndex, toolbar>>
    /\ UNCHANGED <<appSettings, prefsDialog, exportDialog, mainClose, channelTree,
                   plotCanvas, tempFiles>>

\* the tree gives the item of a channel its type (ChannelTreeWidget.load_channels)
tree_identify_channel_type(channel_name) ==
    /\ funcCall = [pc |-> "ready"]
    /\ funcCall' = [pc |-> "typed", channel_name |-> channel_name,
                    channel_type |-> identify_channel_type(channel_name)]
    /\ UNCHANGED <<coreVars, datFile, channelIndex, toolbar>>
    /\ UNCHANGED <<appSettings, prefsDialog, exportDialog, mainClose, channelTree,
                   plotCanvas, tempFiles>>

\* the detector infers the phase of a channel (fault_detector.py:280)
detector_identify_phase(channel_name) ==
    /\ funcCall = [pc |-> "ready"]
    /\ funcCall' = [pc |-> "phased", channel_name |-> channel_name,
                    phase |-> identify_phase(channel_name)]
    /\ UNCHANGED <<coreVars, datFile, channelIndex, toolbar>>
    /\ UNCHANGED <<appSettings, prefsDialog, exportDialog, mainClose, channelTree,
                   plotCanvas, tempFiles>>

NamesInit ==
    /\ CoreIdle
    /\ ComponentsIdleExcept({"funcCall"})
    /\ funcCall = [pc |-> "ready"]

NamesNext ==
    \/ \E name \in NamesUnderStudy : find_channels(<< name >>)
    \/ \E first \in NamesUnderStudy, second \in NamesUnderStudy :
          find_channels(<< first, second >>)
    \/ \E name \in NamesUnderStudy : tree_identify_channel_type(name)
    \/ \E name \in NamesUnderStudy : detector_identify_phase(name)

SpecNames == NamesInit /\ [][NamesNext]_vars

(***************************************************************************)
(* Part 13.  Channel indices from the reader to the consumers.  The reader *)
(* builds the channel lists of a record                                    *)
(* (src/core/comtrade_reader.py:749-846, 915-1033, 1090-1164), the tree    *)
(* publishes the index attribute of every checked channel                  *)
(* (src/gui/widgets/channel_tree.py:523-548), and the plot and the export  *)
(* use the published numbers as positions in the record's lists            *)
(* (src/gui/widgets/plot_widget.py:177-259,                                *)
(* src/gui/dialogs/export_dialog.py:61-107).  A channel is its type, its   *)
(* index attribute and its name; the name is the number of its definition  *)
(* line in the CFG file.                                                   *)
(***************************************************************************)
MaxDefs == 3

Channel(type, index, name) == [type |-> type, index |-> index, name |-> name]

\* _create_record: the library's channels, index = position (enumerate)
LibraryChannels(type, count) ==
    [k \in 1..count |-> Channel(type, k - 1, k)]

\* _parse_cfg_content followed by _create_analog_channels or
\* _create_digital_channels: definition line k carries the channel number k;
\* a line with too few fields or a field that is no number is skipped with a
\* warning; the others become channels with index = number - 1, in order
RECURSIVE ManualChannels(_, _, _)
ManualChannels(type, wellformed, k) ==
    IF k > Len(wellformed) THEN << >>
    ELSE IF wellformed[k]
      THEN << Channel(type, k - 1, k) >> \o ManualChannels(type, wellformed, k + 1)
      ELSE ManualChannels(type, wellformed, k + 1)

\* the definition lines of one type: which of them are well formed
Definitions(count) == UNION { [1..n -> BOOLEAN] : n \in 0..count }

\* get_selected_channels: item.channel.index of every checked item of one
\* type, in tree order
RECURSIVE SelectedIndices(_, _)
SelectedIndices(channels, checked) ==
    IF channels = << >> THEN << >>
    ELSE LET rest == SelectedIndices(Tail(channels), checked)
         IN IF Head(channels) \in checked
              THEN << Head(channels).index >> \o rest
              ELSE rest

\* the loops of _plot_analog_channels, _plot_digital_channels and
\* _export_data: an index that is not below the length of the list is passed
\* over, any other is used as a position in the list
RECURSIVE ChannelsAt(_, _)
ChannelsAt(channels, indices) ==
    IF indices = << >> THEN << >>
    ELSE LET rest == ChannelsAt(channels, Tail(indices))
         IN IF Head(indices) >= Len(channels)
              THEN rest
              ELSE << channels[Head(indices) + 1] >> \o rest

Loaded(via, analog_channels, digital_channels) ==
    [pc |-> "loaded", via |-> via,
     analog_channels |-> analog_channels, digital_channels |-> digital_channels,
     checked |-> {},
     selected |-> [analog |-> << >>, digital |-> << >>],
     used |-> [analog |-> << >>, digital |-> << >>]]

\* load_file through the comtrade library (comtrade_reader.py:128-161)
load_library_channels(analog_count, digital_count) ==
    /\ channelIndex.pc = "start"
    /\ channelIndex' = Loaded("library", LibraryChannels("analog", analog_count),
                              LibraryChannels("digital", digital_count))
    /\ UNCHANGED <<coreVars, datFile, funcCall, toolbar>>
    /\ UNCHANGED <<appSettings, prefsDialog, exportDialog, mainClose, channelTree,
                   plotCanvas, tempFiles>>

\* load_file through the manual parser (comtrade_reader.py:187-215)
load_manual_channels(analog_wellformed, digital_wellformed) ==
    /\ channelIndex.pc = "start"
    /\ channelIndex' = Loaded("manual", ManualChannels("analog", analog_wellformed, 1),
                              ManualChannels("digital", digital_wellformed, 1))
    /\ UNCHANGED <<coreVars, datFile, funcCall, toolbar>>
    /\ UNCHANGED <<appSettings, prefsDialog, exportDialog, mainClose, channelTree,
                   plotCanvas, tempFiles>>

\* the user checks or unchecks the item of one channel
toggle_channel_item(channel) ==
    /\ channelIndex.pc = "loaded"
    /\ channel \in Range(channelIndex.analog_channels)
                     \cup Range(channelIndex.digital_channels)
    /\ channelIndex' =
          [channelIndex EXCEPT !.checked =
              IF channel \in @ THEN @ \ {channel} ELSE @ \cup {channel}]
    /\ UNCHANGED <<coreVars, datFile, funcCall, toolbar>>
    /\ UNCHANGED <<appSettings, prefsDialog, exportDialog, mainClose, channelTree,
                   plotCanvas, tempFiles>>

\* emit_selection_changed: channels_selected carries get_selected_channels()
publish_selected_channels ==
    /\ channelIndex.pc = "loaded"
    /\ channelIndex' =
          [channelIndex EXCEPT
              !.pc = "published",
              !.selected =
                  [analog |-> SelectedIndices(channelIndex.analog_channels,
                                              channelIndex.checked),
                   digital |-> SelectedIndices(channelIndex.digital_channels,
                                               channelIndex.checked)]]
    /\ UNCHANGED <<coreVars, datFile, funcCall, toolbar>>
    /\ UNCHANGED <<appSettings, prefsDialog, exportDialog, mainClose, channelTree,
                   plotCanvas, tempFiles>>

\* what a consumer makes of the published indices
UsedChannels(c) ==
    [analog |-> ChannelsAt(c.analog_channels, c.selected.analog),
     digital |-> ChannelsAt(c.digital_channels, c.selected.digital)]

\* on_channels_selected -> PlotCanvas.plot_channels (main_window.py:622-625)
plot_selected_channels ==
    /\ channelIndex.pc = "published"
    /\ channelIndex' = [channelIndex EXCEPT !.pc = "plotted",
                                            !.used = UsedChannels(channelIndex)]
    /\ UNCHANGED <<coreVars, datFile, funcCall, toolbar>>
    /\ UNCHANGED <<appSettings, prefsDialog, exportDialog, mainClose, channelTree,
                   plotCanvas, tempFiles>>

\* ExportWorker._export_data with config['selected_channels']
export_selected_channels ==
    /\ channelIndex.pc = "published"
    /\ channelIndex' = [channelIndex EXCEPT !.pc = "exported",
                                            !.used = UsedChannels(channelIndex)]
    /\ UNCHANGED <<coreVars, datFile, funcCall, toolbar>>
    /\ UNCHANGED <<appSettings, prefsDialog, exportDialog, mainClose, channelTree,
                   plotCanvas, tempFiles>>

IndexInit ==
    /\ CoreIdle
    /\ ComponentsIdleExcept({"channelIndex"})
    /\ channelIndex = [pc |-> "start"]

IndexNext ==
    \/ \E analog_count \in 1..MaxDefs, digital_count \in 0..MaxDigital :
          load_library_channels(analog_count, digital_count)
    \/ \E analog_wellformed \in Definitions(MaxDefs),
          digital_wellformed \in Definitions(MaxDigital) :
          load_manual_channels(analog_wellformed, digital_wellformed)
    \/ \E type \in {"analog", "digital"}, k \in 1..MaxDefs :
          toggle_channel_item(Channel(type, k - 1, k))
    \/ publish_selected_channels
    \/ plot_selected_channels
    \/ export_selected_channels

SpecIndex == IndexInit /\ [][IndexNext]_vars

(***************************************************************************)
(* Part 14.  MainToolbarWidget with its FileToolbar and AnalysisToolbar    *)
(* (src/gui/widgets/toolbar.py).  The record toolbar holds the enabled     *)
(* flags of the buttons, is_analyzing, the text of the status indicator,   *)
(* the name of the last call and the number of calls made; data_loaded is  *)
(* the argument of the last set_data_loaded call, which the toolbar itself *)
(* does not keep.                                                          *)
(***************************************************************************)
\* after __init__ and init_toolbar (lines 248-284)
ToolbarStart ==
    [pc |-> "ready", ncalls |-> 0, call |-> "__init__",
     save_btn |-> FALSE, export_btn |-> FALSE,
     is_analyzing |-> FALSE, start_btn |-> FALSE, stop_btn |-> FALSE,
     status_indicator |-> "waiting for data",
     data_loaded |-> FALSE]

\* FileToolbar.set_file_loaded (lines 233-236)
SetFileLoaded(t, loaded) ==
    [t EXCEPT !.save_btn = loaded, !.export_btn = loaded]

\* AnalysisToolbar.set_data_loaded (lines 286-292)
SetDataLoaded(t, loaded) ==
    [t EXCEPT !.start_btn = loaded /\ ~t.is_analyzing,
              !.status_indicator = IF loaded THEN "data loaded"
                                             ELSE "waiting for data",
              !.data_loaded = loaded]

\* AnalysisToolbar.set_analysis_state (lines 294-303)
SetAnalysisState(t, analyzing) ==
    [t EXCEPT !.is_analyzing = analyzing,
              !.start_btn = ~analyzing,
              !.stop_btn = analyzing,
              !.status_indicator = IF analyzing THEN "analyzing"
                                                ELSE "analysis finished"]

Called(t, op) == [t EXCEPT !.ncalls = @ + 1, !.call = op]

set_data_loaded(loaded) ==
    /\ toolbar.pc = "ready"
    /\ toolbar.ncalls < MaxCalls
    /\ toolbar' = Called(SetDataLoaded(toolbar, loaded), "set_data_loaded")
    /\ UNCHANGED <<coreVars, datFile, funcCall, channelIndex>>
    /\ UNCHANGED <<appSettings, prefsDialog, exportDialog, mainClose, channelTree,
                   plotCanvas, tempFiles>>

set_analysis_state(analyzing) ==
    /\ toolbar.pc = "ready"
    /\ toolbar.ncalls < MaxCalls
    /\ toolbar' = Called(SetAnalysisState(toolbar, analyzing), "set_analysis_state")
    /\ UNCHANGED <<coreVars, datFile, funcCall, channelIndex>>
    /\ UNCHANGED <<appSettings, prefsDialog, exportDialog, mainClose, channelTree,
                   plotCanvas, tempFiles>>

\* the values of a key of state_dict: the key is absent, or a boolean
KeyValues == {"absent", "True", "False"}

\* MainToolbarWidget.update_state (lines 476-500): the keys are looked at in
\* the order file_loaded, data_loaded, analyzing
update_state(file_loaded, data_loaded, analyzing) ==
    /\ toolbar.pc = "ready"
    /\ toolbar.ncalls < MaxCalls
    /\ LET t1 == IF file_loaded = "absent" THEN toolbar
                 ELSE SetFileLoaded(toolbar, file_loaded = "True")
           t2 == IF data_loaded = "absent" THEN t1
                 ELSE SetDataLoaded(t1, data_loaded = "True")
           t3 == IF analyzing = "absent" THEN t2
                 ELSE SetAnalysisState(t2, analyzing = "True")
       IN toolbar' = Called(t3, "update_state")
    /\ UNCHANGED <<coreVars, datFile, funcCall, channelIndex>>
    /\ UNCHANGED <<appSettings, prefsDialog, exportDialog, mainClose, channelTree,
                   plotCanvas, tempFiles>>

ToolbarInit ==
    /\ CoreIdle
    /\ ComponentsIdleExcept({"toolbar"})
    /\ toolbar = ToolbarStart

ToolbarNext ==
    \/ \E loaded \in BOOLEAN : set_data_loaded(loaded)
    \/ \E analyzing \in BOOLEAN : set_analysis_state(analyzing)
    \/ \E file_loaded \in KeyValues, data_loaded \in KeyValues,
          analyzing \in KeyValues :
          update_state(file_loaded, data_loaded, analyzing)

SpecToolbar == ToolbarInit /\ [][ToolbarNext]_vars

(***************************************************************************)
(* Part 12, continued.  DataProcessor._remove_digital_spikes               *)
(* (src/core/data_processor.py:150-163) on the samples of a digital        *)
(* channel: boolean sequences of up to MaxBits samples.                    *)
(***************************************************************************)
MaxBits == 5

DigitalSignals == UNION { [1..n -> BOOLEAN] : n \in 0..MaxBits }

\* The loop reads data and writes filtered_data, a copy of data: every
\* interior sample that differs from both neighbours of the input, the
\* neighbours being equal, takes the value of its left neighbour in the
\* input.
remove_digital_spikes_samples(data) ==
    IF Len(data) < 3 THEN data
    ELSE [i \in 1..Len(data) |->
            IF /\ 1 < i /\ i < Len(data)
               /\ data[i] # data[i - 1]
               /\ data[i] # data[i + 1]
               /\ data[i - 1] = data[i + 1]
              THEN data[i - 1]
              ELSE data[i]]

\* _preprocess_digital_channels with remove_spikes set (lines 110-112)
remove_spikes(data) ==
    /\ funcCall = [pc |-> "ready"]
    /\ funcCall' = [pc |-> "filtered", data |-> data,
                    filtered_data |-> remove_digital_spikes_samples(data)]
    /\ UNCHANGED <<coreVars, datFile, channelIndex, toolbar>>
    /\ UNCHANGED <<appSettings, prefsDialog, exportDialog, mainClose, channelTree,
                   plotCanvas, tempFiles>>

\* the processed record is preprocessed once more
remove_spikes_again ==
    /\ funcCall.pc = "filtered"
    /\ funcCall' = [pc |-> "filtered_twice", data |-> funcCall.data,
                    filtered_data |-> funcCall.filtered_data,
                    filtered_again |->
                        remove_digital_spikes_samples(funcCall.filtered_data)]
    /\ UNCHANGED <<coreVars, datFile, channelIndex, toolbar>>
    /\ UNCHANGED <<appSettings, prefsDialog, exportDialog, mainClose, channelTree,
                   plotCanvas, tempFiles>>

SpikesInit ==
    /\ CoreIdle
    /\ ComponentsIdleExcept({"funcCall"})
    /\ funcCall = [pc |-> "ready"]

SpikesNext ==
    \/ \E data \in DigitalSignals : remove_spikes(data)
    \/ remove_spikes_again

SpecSpikes == SpikesInit /\ [][SpikesNext]_vars

(***************************************************************************)
(* Claims about the analysis lifecycle                                     *)
(***************************************************************************)
StartEnabled == start_analysis_action \/ start_analysis_tool_action
StopEnabled == stop_analysis_action \/ stop_analysis_tool_action

\* C1: at every moment at most one AnalysisWorker thread is running.
C1_AtMostOneWorkerRunning == Cardinality(RunningWorkers) <= 1

\* A worker that was started and whose finished signal is not yet handled
InFlight(w) == workers[w].pc # "none" /\ w \notin finished_handled

\* C2: from start_analysis until the worker's finished signal is handled,
\* both start actions are disabled and both stop actions are enabled.
C2_StartDisabledStopEnabledDuringRun ==
    \A w \in Workers :
        InFlight(w) =>
            /\ ~start_analysis_action /\ ~start_analysis_tool_action
            /\ stop_analysis_action /\ stop_analysis_tool_action

\* C3: a worker whose cancellation flag was set before it begins fault
\* detection does not run detect_faults.
C3_NoDetectAfterCancel ==
    [][ \A w \in Workers :
          (workers[w].pc = "detect" /\ workers'[w].pc = "after_detect")
              => ~workers[w].is_cancelled ]_vars

Overlap(a, b) == a.start_time <= b.end_time /\ b.start_time <= a.end_time

\* C5: the merged list contains no two distinct events of the same fault
\* type whose time intervals overlap.
C5_NoSameTypeOverlapLeft ==
    merge_pc = "done" =>
        \A i, j \in 1..Len(merged_events) :
            i < j => ~(/\ merged_events[i].fault_type = merged_events[j].fault_type
                       /\ Overlap(merged_events[i], merged_events[j]))

\* The input events folded into the merged event m, found by their labels
Group(m) == { input_events[m.description[k]] : k \in 1..Len(m.description) }

RECURSIVE SumConfidence(_)
SumConfidence(S) ==
    IF S = {} THEN 0
    ELSE LET x == CHOOSE y \in S : TRUE
         IN x.confidence + SumConfidence(S \ {x})

\* C6: a merged event has the earliest start, the latest end, the maximum
\* severity and the union of the affected channels of its group.
C6_MergedFields ==
    merge_pc = "done" =>
        \A k \in 1..Len(merged_events) :
            LET m == merged_events[k]
                G == Group(m)
            IN /\ \A g \in G : /\ m.start_time <= g.start_time
                               /\ m.end_time >= g.end_time
                               /\ m.severity >= g.severity
               /\ \E g \in G : m.start_time = g.start_time
               /\ \E g \in G : m.end_time = g.end_time
               /\ \E g \in G : m.severity = g.severity
               /\ m.affected_channels = UNION { g.affected_channels : g \in G }

\* A run in which three events were merged into one and their fields differ
C6_Witness ==
    /\ merge_pc = "done"
    /\ \E k \in 1..Len(merged_events) :
          /\ Len(merged_events[k].description) >= 3
          /\ merged_events[k].end_time > merged_events[k].start_time
          /\ Cardinality(merged_events[k].affected_channels) >= 2
          /\ \E g \in Group(merged_events[k]) :
                g.severity < merged_events[k].severity

\* C7: the confidence of a merged event is the arithmetic mean of the
\* confidences of the events merged into it.
C7_ConfidenceIsMean ==
    merge_pc = "done" =>
        \A k \in 1..Len(merged_events) :
            LET m == merged_events[k]
            IN m.confidence * Len(m.description) = SumConfidence(Group(m))

(***************************************************************************)
(* Claims about the detectors                                              *)
(***************************************************************************)
\* C8: every FaultEvent returned by detect_faults has end_time >= start_time.
C8_EndNotBeforeStart ==
    detect_pc = "returned" =>
        \A k \in 1..Len(returned_events) :
            returned_events[k].end_time >= returned_events[k].start_time

(***************************************************************************)
(* Claims about the reader and the preprocessor                            *)
(***************************************************************************)
OriginalUnchanged ==
    \A id \in ChannelArrayIds(original) : heap[id].written = {}

\* C9 (as stated): on every return path of preprocess_record, writing into a
\* channel sample array of the returned record leaves the sample arrays of
\* the record passed in unchanged.
C9_WritesLeaveOriginalUnchanged ==
    pre_pc \in {"returned", "returned_original"} => OriginalUnchanged

\* C9 (amended): on the normal return path of preprocess_record, writing into
\* a channel sample array of the returned record leaves the sample arrays of
\* the record passed in unchanged; when preprocessing raises, the record
\* returned is the record passed in itself.
C9_NormalReturnIsIndependent ==
    /\ pre_pc = "returned" =>
          /\ OriginalUnchanged
          /\ Range(ArrayIds(returned)) \cap Range(ArrayIds(original)) = {}
    /\ pre_pc = "returned_original" => returned = original

\* a sample of the record returned on the normal path has been overwritten
C9_Witness ==
    /\ pre_pc = "returned"
    /\ \E id \in ChannelArrayIds(returned) : heap[id].written # {}

ChannelLengthsMatch(rec) ==
    \A id \in ChannelArrayIds(rec) : heap[id].len = heap[rec.time_axis].len

\* C10: every record the reader produced or preprocess_record returned has
\* channel data exactly as long as its time axis, for analog and digital
\* channels alike.
C10_ChannelLengthEqualsTimeAxis ==
    /\ pre_pc \in {"loaded", "returned", "returned_original"} =>
          ChannelLengthsMatch(original)
    /\ pre_pc \in {"returned", "returned_original"} =>
          ChannelLengthsMatch(returned)

(***************************************************************************)
(* Claims about AppSettings                                                *)
(***************************************************************************)
\* C11: no public entry point lets an exception escape; here for the settings
\* operations load_settings, save_settings, import_settings, export_settings.
C11_NoExceptionEscapes ==
    appSettings.pc = "ready" => ~appSettings.call.escaped

\* C12: when load_settings or save_settings fails inside, every in-memory
\* settings field has the value it had before the call.
C12_FailedLoadSaveKeepsMemory ==
    (/\ appSettings.pc = "ready"
     /\ appSettings.call.op \in {"load_settings", "save_settings"}
     /\ appSettings.call.failed)
        => Memory(appSettings) = appSettings.call.before

\* after add_recent_file(p): p resolved is first, occurs once, the list is
\* within the limit
RecentListInOrder ==
    LET list == appSettings.ui_settings.recent_files
        file_path == resolve(appSettings.call.path)
    IN /\ Len(list) >= 1
       /\ list[1] = file_path
       /\ Cardinality({ k \in 1..Len(list) : list[k] = file_path }) = 1
       /\ Len(list) <= appSettings.ui_settings.max_recent_files

\* both stores hold the list that is in memory
RecentListPersisted ==
    /\ appSettings.qsettings.recent_files = appSettings.ui_settings.recent_files
    /\ appSettings.config_file.kind = "json"
    /\ appSettings.config_file.ui.kind = "dict"
    /\ appSettings.config_file.ui.value.recent_files
          = appSettings.ui_settings.recent_files

C14_CloseWhileRunningIsConfirmed ==
    (exportDialog.pc = "closed" /\ exportDialog.closed_while_running)
        => exportDialog.confirmed

\* C15: when cancellation is requested before the worker begins to write the
\* output file, no output file is written and export_completed is not
\* emitted, for every export type.
C15_CancelBeforeWriteStopsExport ==
    exportDialog.worker.cancelled_before_write =>
        /\ ~exportDialog.worker.file_written
        /\ ~exportDialog.worker.completed

(***************************************************************************)
(* Claims about closing the main window                                    *)
(***************************************************************************)
\* C16: on every accepted close of the main window the reader is closed, and
\* closing the reader is the first shutdown step of the handler, before the
\* window state is saved.
C16_ReaderClosedFirst ==
    mainClose.pc = "closed" =>
        /\ ~mainClose.current_record
        /\ mainClose.shutdown_steps[1] = "comtrade_reader.close"

(***************************************************************************)
(* Claims about the Preferences dialog                                     *)
(***************************************************************************)
\* C17: when the Preferences dialog is dismissed with Cancel and neither
\* Apply nor OK was pressed, the settings in memory and the persisted
\* settings are what they were when the dialog was opened.
C17_CancelLeavesSettingsUnchanged ==
    (prefsDialog.pc = "rejected" /\ ~prefsDialog.applied) =>
        /\ Memory(appSettings) = prefsDialog.opened.memory
        /\ Stores(appSettings) = prefsDialog.opened.stores

C19_HighlightsAreExactlyTheEvents ==
    plotCanvas.call.op \in {"highlight_fault_events",
                            "on_highlight_faults_requested"} =>
        /\ Len(plotCanvas.axes) = Len(plotCanvas.call.axes_before)
        /\ \A i \in 1..Len(plotCanvas.axes) :
              /\ plotCanvas.axes[i].patches = plotCanvas.call.events
              /\ plotCanvas.axes[i].line = plotCanvas.call.axes_before[i].line

(***************************************************************************)
(* Claims about the reader's temporary files                               *)
(***************************************************************************)
\* C20: when load_file has returned, no temporary copy of the configuration
\* file is left on disk, whatever happened after the file was created.
C20_NoTempFileLeft ==
    tempFiles.call.op \in {"load_file", "close"} => tempFiles.disk = {}

(***************************************************************************)
(* Claims about the DAT parsing cascade                                    *)
(***************************************************************************)
\* C21: the strategies are tried in order and the first that yields a
\* matrix decides; synthetic data is returned only when every strategy has
\* failed; a well-formed comma-separated ASCII file that can be read is
\* decoded by the ASCII strategy.
C21_AsciiFileDecodedByAsciiStrategy ==
    datFile.pc = "read" =>
        /\ (datFile.data.strategy = "mock" /\ datFile.readable) =>
              /\ try_binary_format(datFile.file, datFile.total_channels) = NoMatrix
              /\ try_ascii_format(datFile.file, datFile.total_channels,
                                  datFile.text_parse) = NoMatrix
        /\ (datFile.file.format = "ascii" /\ datFile.readable) =>
              datFile.data = Matrix("ascii", datFile.file.rows, datFile.file.cols)

\* A channel name matches a keyword list of the detector
MatchesKeywords(channel_name, keywords) ==
    \E kw \in keywords : Contains(Upper(channel_name), kw)

\* C22: classification is exclusive with voltage winning: a channel whose
\* name matches both the voltage and the current keywords is a voltage
\* channel only; it is never among the channels the current-based detectors
\* process, and the tree gives it the type voltage.
C22_VoltageWinsExclusively ==
    /\ funcCall.pc = "found" =>
          \A k \in 1..Len(funcCall.current_channels) :
              ~MatchesKeywords(funcCall.current_channels[k], VoltageKeywords)
    /\ (/\ funcCall.pc = "typed"
        /\ MatchesKeywords(funcCall.channel_name, VoltageKeywords)
        /\ MatchesKeywords(funcCall.channel_name, CurrentKeywords))
          => funcCall.channel_type = "voltage"

\* C23, as amended: phase inference does not depend on the case of the
\* letters: the name is upper-cased first, so "Ua" gives phase A like "UA",
\* "VA" and "IA" give phase A and "PhaseC_I" gives phase C.
C23_PhaseIgnoresCase ==
    funcCall.pc = "phased" =>
        /\ (funcCall.channel_name \in { <<"U", "a">>, <<"U", "A">>, <<"V", "A">>,
                                        <<"I", "A">> }
               => funcCall.phase = "A")
        /\ (funcCall.channel_name = <<"P", "h", "a", "s", "e", "C", "_", "I">>
               => funcCall.phase = "C")
        /\ (Contains(Upper(funcCall.channel_name), <<"C">>)
               => funcCall.phase \in {"B", "C"})
        /\ (funcCall.phase = "A"
               => Contains(Upper(funcCall.channel_name), <<"A">>))

\* the phase of "Ua" has been inferred, and it is A
C23_Witness ==
    /\ funcCall.pc = "phased"
    /\ funcCall.channel_name = <<"U", "a">>
    /\ funcCall.phase = "A"

\* C23: phase inference matches uppercase letters only: "Ua" gives the
\* unknown phase, "VA" and "IA" give phase A and "PhaseC_I" gives phase C.
C23_PhaseFromUppercaseOnly ==
    funcCall.pc = "phased" =>
        /\ (funcCall.channel_name = <<"U", "a">> => funcCall.phase = "")
        /\ (funcCall.channel_name \in { <<"V", "A">>, <<"I", "A">> }
               => funcCall.phase = "A")
        /\ (funcCall.channel_name = <<"P", "h", "a", "s", "e", "C", "_", "I">>
               => funcCall.phase = "C")

\* C24: a run whose cancellation flag has been set by stop_analysis never
\* installs a result: it emits no analysis_completed, so no such signal of a
\* cancelled worker waits for on_analysis_completed to make it the
\* current_analysis.
C24_CancelledRunInstallsNothing ==
    \A k \in 1..Len(eventQueue) :
        eventQueue[k].sig = "analysis_completed"
            => ~workers[eventQueue[k].worker].is_cancelled

\* C25: a current_analysis held by the Main Window was computed from the
\* record that is the current_record.
C25_AnalysisBelongsToCurrentRecord ==
    current_analysis # 0 => current_analysis = current_record.id

\* C26: when a close event of the Main Window has been accepted, no
\* AnalysisWorker thread is still running.
C26_NoWorkerRunningWhenClosed ==
    mainClose.pc = "closed" => ~mainWorkerIsRunning(mainClose)

\* C27: in every state of AppSettings the recent-files list has at most
\* max_recent_files entries, also after import_settings and after loading
\* persisted settings.
C27_RecentFilesWithinLimit ==
    appSettings.pc = "ready" =>
        Len(appSettings.ui_settings.recent_files)
            <= appSettings.ui_settings.max_recent_files

\* the checked channels of a list, in list order
CheckedChannels(channels, checked) ==
    SelectSeq(channels, LAMBDA channel : channel \in checked)

\* C28: the indices the tree publishes identify the same channels when the
\* plot and the export use them as positions in the record's channel lists:
\* the channels used are the channels whose items are checked, for analog
\* and for digital channels, for every record the reader can produce.
C28_PublishedIndicesAreListPositions ==
    channelIndex.pc \in {"plotted", "exported"} =>
        /\ channelIndex.used.analog =
              CheckedChannels(channelIndex.analog_channels, channelIndex.checked)
        /\ channelIndex.used.digital =
              CheckedChannels(channelIndex.digital_channels, channelIndex.checked)

\* C29: after any sequence of set_data_loaded, set_analysis_state and
\* update_state calls the start button of the Analysis Toolbar is enabled
\* only if data is loaded and no analysis is in progress.
C29_StartOnlyWithDataAndIdle ==
    toolbar.pc = "ready" =>
        (toolbar.start_btn => toolbar.data_loaded /\ ~toolbar.is_analyzing)

\* an interior sample that differs from both of its neighbours
HasIsolatedSample(data) ==
    \E i \in 2..(Len(data) - 1) : data[i] # data[i - 1] /\ data[i] # data[i + 1]

\* C30: digital de-spiking is idempotent: the output of
\* _remove_digital_spikes has no interior sample that differs from both of
\* its neighbours, and a second application changes nothing.
C30_DespikeIsIdempotent ==
    /\ funcCall.pc \in {"filtered", "filtered_twice"}
          => ~HasIsolatedSample(funcCall.filtered_data)
    /\ funcCall.pc = "filtered_twice"
          => funcCall.filtered_again = funcCall.filtered_data

====
